---------------------------- MODULE Spec2Model ----------------------------
(***************************************************************************)
(* pm-endgame-sweep: the ingest orchestrator (crates/ingest/src/           *)
(* orchestrator.rs) with its three bounded channels, three periodic        *)
(* producers and three persistence tasks, the storage calls they make      *)
(* (crates/storage), and the retry helper (crates/ingest/src/retry.rs).    *)
(*                                                                         *)
(* Every await point of a task is a position (its *_pc); an action is the  *)
(* code between two await points.  tokio::select! polls its ready branches *)
(* in random order, so whenever two branches are ready either may run.     *)
(* A timer tick is ready at times the model does not fix: a tick action is *)
(* enabled whenever its task waits at the select.                          *)
(***************************************************************************)
EXTENDS Integers, Sequences, FiniteSets, TLC

(***************************************************************************)
(* Bounds of the model.                                                    *)
(***************************************************************************)
\* markets the venue lists (ids 1..NMarkets)
NMarkets == 3
\* ticks the interval of the active producer delivers
MaxCycles == 2
\* distinct rule texts (hashes) the venue may serve for a market
NHashes == 2
\* config.max_channel_size (default 10000), scaled
MaxChannelSize == 1
\* config.max_quotes_per_fetch (default 100), scaled
MaxQuotesPerFetch == 2
\* config.max_markets_per_discovery (default 1000), scaled
MaxMarketsPerDiscovery == 2
\* batch_size of market_persistence_task (100 in the code), scaled
BatchSize == 2

\* largest config.retry.max_attempts tried (an unsigned integer, default 3)
MaxMaxAttempts == 3
\* the oldest quote scored is MaxStaleSteps * 90 s old
MaxStaleSteps == 4
\* bucket_to_5m is tried on every minute up to MaxMinute after the epoch
MaxMinute == 65
\* insert_quote_5m calls made on the quotes_5m table
MaxInserts5m == 3
\* price levels on each side of an order book
MaxBookDepth == 2
\* rows of a batch write
MaxBatchRows == 2
\* ticks of the scoring ticker
MaxScoringCycles == 2
\* markets the venue's pages hold over the discoveries of a run
MaxFeed == 3

\* limit of the rule task's list_active_markets call
RuleMarketsLimit == 100

Min(a, b) == IF a <= b THEN a ELSE b

\* no row for the key
NoRow == 0

VARIABLES
    cancelled,        \* CancellationToken: cancel() has been called
    run_pc,           \* IngestOrchestrator::run: "waiting" | "joining" | "returned"
    join_idx,         \* index into handles of the handle run() awaits
    budget,           \* ticks each producer's interval may still deliver
    \* discovery_task
    d_pc,             \* "select" | "discover" | "send" | "done"
    d_offset,         \* offset of the page requested next
    d_page,           \* markets of the current page not yet sent
    d_last,           \* history: the last discover_markets call of the cycle,
                      \* <<[offset, result]>> with result "page" | "empty" |
                      \* "err"; <<>> before the cycle's first
    \* markets channel
    market_q,         \* messages buffered in the channel
    market_rx_open,   \* the Receiver has not been dropped
    \* market_persistence_task
    w_pc,             \* "select" | "done"
    batch,            \* Vec<Market> collected since the last flush
    \* quote_polling_task
    q_pc,             \* "select" | "get_quotes" | "send" | "done"
    q_ids,            \* market_ids of the current poll
    q_quotes,         \* Vec<Quote> being sent
    q_clock,          \* Utc::now() at the last get_quotes call, in calls
    \* quotes channel
    quote_q,
    quote_rx_open,
    \* quote_persistence_task
    qwriter_pc,       \* "select" | "done"
    \* rule_extraction_task
    r_pc,             \* "select" | "get_rules" | "check" | "send" | "done"
    r_markets,        \* markets of the cycle not yet processed
    r_rule,           \* RuleSnapshot returned by get_rules
    r_result,         \* Result<bool> of the last has_rule_changed: "true" |
                      \* "false" | "err"; "none" before the first
    r_differs,        \* history: has_rule_changed failed, or ran on a table
                      \* with another hash or no row for the market
    \* rules channel
    rule_q,
    rule_rx_open,
    \* rule_persistence_task
    rwriter_pc,       \* "select" | "done"
    \* storage
    markets_tbl,      \* market_ids with a row in markets
    rules_latest,     \* market_id -> rule_hash of its row, or NoRow
    quotes_latest,    \* market_id -> as_of of its row, or NoRow
    quotes_5m,        \* <<market_id, bucket_start>> -> as_of of its row, or NoRow
    \* history
    market_produced,  \* every market of every page discover_markets returned
    market_sent,      \* every market a send() on market_tx accepted, in order
    market_recv,      \* number of markets market_rx.recv() returned
    market_log,       \* every upsert_markets_batch call: [batch, ok, final]
    quote_sent,       \* every batch a send() on quote_tx accepted
    quote_log,        \* every batch the quote writer handled: [quotes, ok, oks]
    rule_sent,        \* number of rules a send() on rule_tx accepted
    rule_upserts,     \* number of upsert_rule calls
    rule_last,        \* the last upsert_rule call: <<[msg, ok, stored]>>, or <<>>
    at_cancel,        \* when cancel() was called: the messages each channel
                      \* had accepted, the market writer's batch, and the
                      \* producers blocked in a send
    \* retry_with_backoff
    rt_config,        \* RetryConfig
    rt_pc,            \* "idle" | "call" | "sleep" | "returned"
    rt_attempt,       \* attempt
    rt_delay_ms,      \* delay_ms
    rt_result,        \* <<>> until the function returns, then <<outcome>>
    rt_calls,         \* history: the outcome of every operation() call
    rt_sleeps,        \* history: every actual_delay slept
    \* ScoringEngine
    eng_config,       \* ScoringConfig of the engine
    eng_market,       \* Market: [close_time], an Option of milliseconds
    eng_quote,        \* Quote: [as_of, no_bid, no_ask]
    eng_rule,         \* Option<&RuleSnapshot>: [definition_risk_score]
    eng_now,          \* now, in milliseconds
    eng_pc,           \* "idle" | "compute" | "recommend" | "done"
    eng_score,        \* Result<Score> of compute_score, None before it
    eng_rec,          \* Recommendation of generate_recommendation, or None
    \* bucket_to_5m
    bk_dt,            \* DateTime<Utc>: [secs, nanos], secs since the epoch
    bk_pc,            \* "idle" | "bucket" | "again" | "done"
    bk_out,           \* bucket_to_5m(dt), None before the call
    bk_again,         \* bucket_to_5m(bucket_to_5m(dt)), None before the call
    \* insert_quote_5m called directly
    q5_tbl,           \* quotes_5m: <<market_id, bucket_start>> -> as_of, or NoRow
    q5_calls,         \* history: every insert_quote_5m call, [quote, ok]
    \* PolymarketClient::get_quotes, one market
    cq_book,          \* PolymarketBookResponse: [fetched, bids, asks], prices by level
    cq_quote,         \* the Quote pushed for the book, None before
    \* opportunities_handler, one request
    api_config,       \* ApiConfig: [max_page_size, default_page_size]
    api_params,       \* OpportunitiesQuery: [limit, offset], each an Option
    api_pc,           \* "idle" | "handle" | "list_recs" | "count_recs" | "done"
    api_call,         \* the [limit, offset] passed to list_recs, None before
    api_resp,         \* the handler's Result, None before it returns
    \* a batch write of crates/storage
    bt_fn,            \* the function called
    bt_rows,          \* its batch: rows [market_id, v]
    bt_tbl,           \* the table: market_id -> v of its row, or NoRow
    bt_tx,            \* the open transaction's view of the table, or None
    bt_i,             \* rows whose statement has run
    bt_pc,            \* "idle" | "call" | "execute" | "commit" | "returned"
    bt_result,        \* the function's Result, None before it returns
    bt_before,        \* history: the table when the function was called
    \* the scoring orchestrator
    sc_pc,            \* "idle" | "select" | the storage call in flight | "done"
    sc_ticks,         \* ticks of the ticker taken: the number of the cycle
    sc_cancelled,     \* the cancellation token
    sc_markets_tbl,   \* the markets table: ids that have a row
    sc_markets,       \* markets: the ids list_active_markets returned
    sc_quoted,        \* quotes: the ids that have a quote in the map
    sc_computed,      \* computed_scores: the ids that got a Score
    sc_scores_tbl,    \* scores_latest: market_id -> cycle of its row, or NoRow
    sc_recs_tbl,      \* recs_latest: market_id -> cycle of its row, or NoRow
    sc_calls,         \* history: the storage calls of the cycle, [fn, ok]
    sc_result,        \* the Result run returned, None while it runs
    \* the markets queue and writer, with market contents
    mr_feed,          \* market_ids the venue's pages hold, in discovery order
    mr_sent,          \* markets discovery has sent, or given up sending
    mr_cancelled,     \* the cancellation token
    mr_q,             \* the markets channel: [market_id, v]
    mr_rx_open,       \* the Receiver has not been dropped
    mr_batch,         \* the writer's batch
    mr_w_pc,          \* "idle" | "select" | "done"
    mr_tbl,           \* markets: market_id -> v of its row, or NoRow
    mr_log,           \* history: every upsert_markets_batch call, [rows, ok]
    \* the engine's batch functions in a scoring cycle
    eb_markets,       \* markets: Vec<Market>, [market_id, close_time]
    eb_quotes,        \* quotes: HashMap, market_id -> Option<Quote>
    eb_rules,         \* rules: HashMap, market_id -> Option<RuleSnapshot>
    eb_now,           \* now, in milliseconds
    eb_pc,            \* "idle" | "compute" | "recommend" | "done"
    eb_scores,        \* computed_scores, None before the call
    eb_recs           \* recommendations, None before the call

runVars == <<run_pc, join_idx>>
discVars == <<d_pc, d_offset, d_page, d_last>>
chanVars == <<market_q, market_rx_open>>
writerVars == <<w_pc, batch>>
marketHist == <<market_produced, market_sent, market_recv, market_log>>
\* the markets pipeline but for the markets table
marketVars == <<discVars, chanVars, writerVars, marketHist>>
qpollVars == <<q_pc, q_ids, q_quotes, q_clock>>
qchanVars == <<quote_q, quote_rx_open>>
quoteTbls == <<quotes_latest, quotes_5m>>
quoteHist == <<quote_sent, quote_log>>
quoteVars == <<qpollVars, qchanVars, qwriter_pc, quoteTbls, quoteHist>>
rextVars == <<r_pc, r_markets, r_rule, r_result, r_differs>>
rchanVars == <<rule_q, rule_rx_open>>
ruleHist == <<rule_sent, rule_upserts, rule_last>>
ruleVars == <<rextVars, rchanVars, rwriter_pc, rules_latest, ruleHist>>
ingestVars == <<cancelled, runVars, budget, marketVars, markets_tbl, quoteVars,
                ruleVars, at_cancel>>
retryVars == <<rt_config, rt_pc, rt_attempt, rt_delay_ms, rt_result, rt_calls,
               rt_sleeps>>
engineVars == <<eng_config, eng_market, eng_quote, eng_rule, eng_now, eng_pc,
                eng_score, eng_rec>>
bucketVars == <<bk_dt, bk_pc, bk_out, bk_again>>
quotes5mVars == <<q5_tbl, q5_calls>>
clientVars == <<cq_book, cq_quote>>
apiVars == <<api_config, api_params, api_pc, api_call, api_resp>>
batchVars == <<bt_fn, bt_rows, bt_tbl, bt_tx, bt_i, bt_pc, bt_result, bt_before>>
scoringVars == <<sc_pc, sc_ticks, sc_cancelled, sc_markets_tbl, sc_markets, sc_quoted, sc_computed, sc_scores_tbl, sc_recs_tbl, sc_calls, sc_result>>
marketRowsVars == <<mr_feed, mr_sent, mr_cancelled, mr_q, mr_rx_open, mr_batch, mr_w_pc, mr_tbl, mr_log>>
engineBatchVars == <<eb_markets, eb_quotes, eb_rules, eb_now, eb_pc, eb_scores, eb_recs>>
vars == <<ingestVars, retryVars, engineVars, bucketVars, quotes5mVars, clientVars, apiVars, batchVars, scoringVars, marketRowsVars, engineBatchVars>>

\* what a step of one component leaves alone: the other components
offIngest == <<retryVars, engineVars, bucketVars, quotes5mVars, clientVars, apiVars, batchVars, scoringVars, marketRowsVars, engineBatchVars>>
offRetry == <<ingestVars, engineVars, bucketVars, quotes5mVars, clientVars, apiVars, batchVars, scoringVars, marketRowsVars, engineBatchVars>>
offEngine == <<ingestVars, retryVars, bucketVars, quotes5mVars, clientVars, apiVars, batchVars, scoringVars, marketRowsVars, engineBatchVars>>
offBucket == <<ingestVars, retryVars, engineVars, quotes5mVars, clientVars, apiVars, batchVars, scoringVars, marketRowsVars, engineBatchVars>>
offQuotes5m == <<ingestVars, retryVars, engineVars, bucketVars, clientVars, apiVars, batchVars, scoringVars, marketRowsVars, engineBatchVars>>
offClient == <<ingestVars, retryVars, engineVars, bucketVars, quotes5mVars, apiVars, batchVars, scoringVars, marketRowsVars, engineBatchVars>>
offApi == <<ingestVars, retryVars, engineVars, bucketVars, quotes5mVars, clientVars, batchVars, scoringVars, marketRowsVars, engineBatchVars>>
offBatch == <<ingestVars, retryVars, engineVars, bucketVars, quotes5mVars, clientVars, apiVars, scoringVars, marketRowsVars, engineBatchVars>>
offScoring == <<ingestVars, retryVars, engineVars, bucketVars, quotes5mVars, clientVars, apiVars, batchVars, marketRowsVars, engineBatchVars>>
offMarketRows == <<ingestVars, retryVars, engineVars, bucketVars, quotes5mVars, clientVars, apiVars, batchVars, scoringVars, engineBatchVars>>
offEngineBatch == <<ingestVars, retryVars, engineVars, bucketVars, quotes5mVars, clientVars, apiVars, batchVars, scoringVars, marketRowsVars>>

MarketIds == 1..NMarkets
Hashes == 1..NHashes

\* the elements of a sequence
Range(s) == {s[i] : i \in 1..Len(s)}

\* the first n elements of a sequence
Take(s, n) == SubSeq(s, 1, Min(n, Len(s)))

(***************************************************************************)
(* tokio::sync::mpsc bounded channel.                                      *)
(***************************************************************************)
\* a channel without a capacity: a send always finds room
ChanUnbounded(q) == TRUE

\* mpsc::channel(max_channel_size): a send completes only while fewer than
\* max_channel_size messages are buffered
ChanHasRoom(q) == Len(q) < MaxChannelSize

(***************************************************************************)
(* The venue.                                                              *)
(***************************************************************************)
\* VenueClient::discover_markets(limit, offset): a page of the listing
VenuePage(limit, offset) ==
    [i \in 1..(Min(offset + limit, NMarkets) - Min(offset, NMarkets)) |-> offset + i]

\* the subsequences of s: the quotes get_quotes returns leave out every
\* market whose book could not be fetched
RECURSIVE SubSeqs(_)
SubSeqs(s) ==
    IF s = <<>> THEN {<<>>}
    ELSE LET rest == SubSeqs(Tail(s)) IN
         rest \cup {<<Head(s)>> \o t : t \in rest}

(***************************************************************************)
(* Storage: crates/storage.                                                *)
(***************************************************************************)
\* status = 'active' AND close_time inside [now + 3600 s, now + 1209600 s]:
\* the venue's odd markets are, its even ones are closed or out of the
\* window; close_time grows with the id.
Eligible(m) == m % 2 = 1

\* ascending sequence of the members of a set of market ids
RECURSIVE SortedSeq(_)
SortedSeq(S) ==
    IF S = {} THEN <<>>
    ELSE LET lo == CHOOSE x \in S : \A y \in S : x <= y IN
         <<lo>> \o SortedSeq(S \ {lo})

\* markets::list_active_markets(pool, min, max, limit)
ListActiveMarkets(tbl, limit) ==
    Take(SortedSeq({m \in tbl : Eligible(m)}), limit)

\* a has_rule_changed that compares nothing
HasRuleChangedAlways(tbl, market_id, new_hash) == TRUE

\* rules::has_rule_changed(pool, market_id, new_hash), when its query succeeds
HasRuleChanged(tbl, market_id, new_hash) ==
    IF tbl[market_id] = NoRow THEN TRUE ELSE tbl[market_id] # new_hash

\* rules::upsert_rule(pool, rule), when its statement succeeds
UpsertRule(tbl, rule) == [tbl EXCEPT ![rule.market_id] = rule.rule_hash]

\* markets::upsert_markets_batch(pool, markets), when its transaction commits
UpsertMarketsBatch(tbl, markets) == tbl \cup Range(markets)

\* quotes::upsert_quotes_latest_batch(pool, quotes), when its transaction commits
RECURSIVE UpsertQuotesLatestBatch(_, _)
UpsertQuotesLatestBatch(tbl, quotes) ==
    IF quotes = <<>> THEN tbl
    ELSE UpsertQuotesLatestBatch(
            [tbl EXCEPT ![Head(quotes).market_id] = Head(quotes).as_of],
            Tail(quotes))

\* bucket_to_5m(as_of); the clock counts polls, two polls to a bucket
BucketTo5m(as_of) == (as_of \div 2) * 2

\* an insert that replaces the row of the bucket: ON CONFLICT DO UPDATE
InsertQuote5mOverwriting(tbl, quote) ==
    [tbl EXCEPT ![<<quote.market_id, BucketTo5m(quote.as_of)>>] = quote.as_of]

\* quotes::insert_quote_5m(pool, quote): ON CONFLICT DO NOTHING
InsertQuote5m(tbl, quote) ==
    LET key == <<quote.market_id, BucketTo5m(quote.as_of)>> IN
    IF tbl[key] = NoRow THEN [tbl EXCEPT ![key] = quote.as_of] ELSE tbl

\* the producers waiting in send().await on a full queue
BlockedProducers ==
    {p \in {"discovery", "quotes", "rules"} :
        CASE p = "discovery" -> d_pc = "send" /\ market_rx_open /\ ~ChanHasRoom(market_q)
          [] p = "quotes" -> q_pc = "send" /\ quote_rx_open /\ ~ChanHasRoom(quote_q)
          [] p = "rules" -> r_pc = "send" /\ rule_rx_open /\ ~ChanHasRoom(rule_q)}

(***************************************************************************)
(* CancellationToken::cancel, called by stop() or the signal handler.      *)
(***************************************************************************)
Cancel ==
    /\ ~cancelled
    /\ cancelled' = TRUE
    /\ at_cancel' = [market |-> Len(market_sent), quote |-> Len(quote_sent),
                     rule |-> rule_sent, batch |-> batch,
                     blocked |-> BlockedProducers]
    /\ UNCHANGED <<offIngest, runVars, budget, marketVars, markets_tbl,
                   quoteVars, ruleVars>>

(***************************************************************************)
(* discovery_task                                                          *)
(***************************************************************************)
\* a tick that goes on from the offset the last cycle stopped at
DiscoveryTickResuming ==
    /\ d_pc = "select"
    /\ budget.discovery > 0
    /\ budget' = [budget EXCEPT !.discovery = @ - 1]
    /\ d_pc' = "discover"
    /\ d_last' = <<>>
    /\ UNCHANGED <<offIngest, cancelled, runVars, d_offset, d_page, chanVars,
                   writerVars, marketHist, markets_tbl, quoteVars, ruleVars,
                   at_cancel>>

\* select!: ticker.tick() is ready
DiscoveryTick ==
    /\ d_pc = "select"
    /\ budget.discovery > 0
    /\ budget' = [budget EXCEPT !.discovery = @ - 1]
    /\ d_pc' = "discover"
    /\ d_offset' = 0
    /\ d_last' = <<>>
    /\ UNCHANGED <<offIngest, cancelled, runVars, d_page, chanVars,
                   writerVars, marketHist, markets_tbl, quoteVars, ruleVars,
                   at_cancel>>

\* select!: cancellation.cancelled() is ready
DiscoveryCancelled ==
    /\ d_pc = "select"
    /\ cancelled
    /\ d_pc' = "done"
    /\ UNCHANGED <<offIngest, cancelled, runVars, budget, d_offset, d_page,
                   d_last, chanVars, writerVars, marketHist, markets_tbl,
                   quoteVars, ruleVars, at_cancel>>

\* client.discover_markets(limit, offset).await and the match on its result
DiscoverMarkets ==
    /\ d_pc = "discover"
    /\ \E ok \in BOOLEAN :
         LET page == VenuePage(MaxMarketsPerDiscovery, d_offset) IN
         /\ d_last' = <<[offset |-> d_offset,
                         result |-> IF ~ok THEN "err"
                                    ELSE IF page = <<>> THEN "empty"
                                    ELSE "page"]>>
         /\ IF ok /\ page # <<>>
            THEN /\ d_page' = page
                 /\ market_produced' = market_produced \o page
                 /\ d_pc' = "send"
            ELSE \* Err(e), or an empty page: break
                 /\ d_page' = <<>>
                 /\ d_pc' = "select"
                 /\ UNCHANGED market_produced
    /\ UNCHANGED <<offIngest, cancelled, runVars, budget, d_offset, chanVars,
                   writerVars, market_sent, market_recv, market_log,
                   markets_tbl, quoteVars, ruleVars, at_cancel>>

\* market_tx.send(market).await inside `for market in markets`
DiscoverySend ==
    /\ d_pc = "send"
    /\ IF ~market_rx_open
       THEN \* send() fails: "Market channel closed", return
            /\ d_pc' = "done"
            /\ UNCHANGED <<d_offset, d_page, market_q, market_sent>>
       ELSE /\ ChanHasRoom(market_q)
            /\ market_q' = Append(market_q, Head(d_page))
            /\ market_sent' = Append(market_sent, Head(d_page))
            /\ d_page' = Tail(d_page)
            /\ IF Tail(d_page) = <<>>
               THEN /\ d_offset' = d_offset + MaxMarketsPerDiscovery
                    /\ d_pc' = "discover"
               ELSE UNCHANGED <<d_offset, d_pc>>
    /\ UNCHANGED <<offIngest, cancelled, runVars, budget, d_last,
                   market_rx_open, writerVars, market_produced, market_recv,
                   market_log, markets_tbl, quoteVars, ruleVars, at_cancel>>

(***************************************************************************)
(* market_persistence_task and flush_markets.  A storage call of a writer  *)
(* is taken in the step that leads to it: the writer touches nothing but   *)
(* its own table until the call returns.                                   *)
(***************************************************************************)
\* a flush that keeps the batch of a failed write for the next flush
FlushMarketsKeepingFailed(b, ok, final) ==
    /\ markets_tbl' = IF ok THEN UpsertMarketsBatch(markets_tbl, b) ELSE markets_tbl
    /\ market_log' = Append(market_log, [batch |-> b, ok |-> ok, final |-> final])
    /\ batch' = IF ok THEN <<>> ELSE b

\* flush_markets(pool, batch) called for a non-empty batch b:
\* markets::upsert_markets_batch(pool, batch).await, then batch.clear()
\* whatever the result
FlushMarkets(b, ok, final) ==
    /\ markets_tbl' = IF ok THEN UpsertMarketsBatch(markets_tbl, b) ELSE markets_tbl
    /\ market_log' = Append(market_log, [batch |-> b, ok |-> ok, final |-> final])
    /\ batch' = <<>>

\* the writer putting each market in front of its batch
PushedFront(b, market) == <<market>> \o b

\* batch.push(market)
Pushed(b, market) == Append(b, market)

\* a cancellation branch that returns without flushing
FinalFlushSkipped(b) == FALSE

\* `if !batch.is_empty()` of the cancellation branch
FinalFlushNeeded(b) == b # <<>>

\* a writer that flushes only once its batch has grown past batch_size
MarketRecvFlushingLate ==
    /\ w_pc = "select"
    /\ market_q # <<>>
    /\ market_q' = Tail(market_q)
    /\ market_recv' = market_recv + 1
    /\ LET pushed == Pushed(batch, Head(market_q)) IN
       IF Len(pushed) > BatchSize
       THEN \E ok \in BOOLEAN : FlushMarkets(pushed, ok, FALSE)
       ELSE /\ batch' = pushed
            /\ UNCHANGED <<markets_tbl, market_log>>
    /\ UNCHANGED <<offIngest, cancelled, runVars, budget, discVars,
                   market_rx_open, w_pc, market_produced, market_sent,
                   quoteVars, ruleVars, at_cancel>>

\* select!: Some(market) = market_rx.recv()
MarketRecv ==
    /\ w_pc = "select"
    /\ market_q # <<>>
    /\ market_q' = Tail(market_q)
    /\ market_recv' = market_recv + 1
    /\ LET pushed == Pushed(batch, Head(market_q)) IN
       IF Len(pushed) >= BatchSize
       THEN \E ok \in BOOLEAN : FlushMarkets(pushed, ok, FALSE)
       ELSE /\ batch' = pushed
            /\ UNCHANGED <<markets_tbl, market_log>>
    /\ UNCHANGED <<offIngest, cancelled, runVars, budget, discVars,
                   market_rx_open, w_pc, market_produced, market_sent,
                   quoteVars, ruleVars, at_cancel>>

\* a writer whose receiver outlives it: the queue stays open and full
MarketWriterCancelledKeepingReceiver ==
    /\ w_pc = "select"
    /\ cancelled
    /\ IF FinalFlushNeeded(batch)
       THEN \E ok \in BOOLEAN : FlushMarkets(batch, ok, TRUE)
       ELSE UNCHANGED <<markets_tbl, market_log, batch>>
    /\ w_pc' = "done"
    /\ UNCHANGED <<market_rx_open, market_q>>
    /\ UNCHANGED <<offIngest, cancelled, runVars, budget, discVars,
                   market_produced, market_sent, market_recv, quoteVars,
                   ruleVars, at_cancel>>

\* select!: cancellation.cancelled() is ready: flush what remains and
\* return, which drops market_rx with the messages it still holds
MarketWriterCancelled ==
    /\ w_pc = "select"
    /\ cancelled
    /\ IF FinalFlushNeeded(batch)
       THEN \E ok \in BOOLEAN : FlushMarkets(batch, ok, TRUE)
       ELSE UNCHANGED <<markets_tbl, market_log, batch>>
    /\ w_pc' = "done"
    /\ market_rx_open' = FALSE
    /\ market_q' = <<>>
    /\ UNCHANGED <<offIngest, cancelled, runVars, budget, discVars,
                   market_produced, market_sent, market_recv, quoteVars,
                   ruleVars, at_cancel>>

(***************************************************************************)
(* quote_polling_task                                                      *)
(***************************************************************************)
\* select!: ticker.tick() is ready; markets::list_active_markets(..,
\* max_quotes_per_fetch).await
QuoteTick ==
    /\ q_pc = "select"
    /\ budget.quotes > 0
    /\ budget' = [budget EXCEPT !.quotes = @ - 1]
    /\ \E ok \in BOOLEAN :
         LET ids == ListActiveMarkets(markets_tbl, MaxQuotesPerFetch) IN
         IF ok /\ ids # <<>>
         THEN /\ q_ids' = ids
              /\ q_pc' = "get_quotes"
         ELSE \* Err(e), or no active market: continue
              /\ q_ids' = <<>>
              /\ q_pc' = "select"
    /\ UNCHANGED <<offIngest, cancelled, runVars, marketVars, markets_tbl,
                   q_quotes, q_clock, qchanVars, qwriter_pc, quoteTbls,
                   quoteHist, ruleVars, at_cancel>>

QuoteCancelled ==
    /\ q_pc = "select"
    /\ cancelled
    /\ q_pc' = "done"
    /\ UNCHANGED <<offIngest, cancelled, runVars, budget, marketVars,
                   markets_tbl, q_ids, q_quotes, q_clock, qchanVars,
                   qwriter_pc, quoteTbls, quoteHist, ruleVars, at_cancel>>

\* a get_quotes whose stamps run against the order of the polls
QuoteGetQuotesCountingDown ==
    /\ q_pc = "get_quotes"
    /\ q_clock' = q_clock + 1
    /\ \/ \E got \in SubSeqs(q_ids) :
            /\ q_quotes' = [i \in 1..Len(got) |->
                              [market_id |-> got[i],
                               as_of |-> MaxCycles + 1 - q_clock]]
            /\ q_pc' = "send"
       \/ /\ q_quotes' = <<>>
          /\ q_pc' = "select"
    /\ UNCHANGED <<offIngest, cancelled, runVars, budget, marketVars,
                   markets_tbl, q_ids, qchanVars, qwriter_pc, quoteTbls,
                   quoteHist, ruleVars, at_cancel>>

\* client.get_quotes(&market_ids).await: every quote is stamped with the
\* time of the call
QuoteGetQuotes ==
    /\ q_pc = "get_quotes"
    /\ q_clock' = q_clock + 1
    /\ \/ \E got \in SubSeqs(q_ids) :
            /\ q_quotes' = [i \in 1..Len(got) |->
                              [market_id |-> got[i], as_of |-> q_clock + 1]]
            /\ q_pc' = "send"
       \/ \* Err(e): "Quote polling failed"
          /\ q_quotes' = <<>>
          /\ q_pc' = "select"
    /\ UNCHANGED <<offIngest, cancelled, runVars, budget, marketVars,
                   markets_tbl, q_ids, qchanVars, qwriter_pc, quoteTbls,
                   quoteHist, ruleVars, at_cancel>>

\* a send that logs a closed channel and lets the task go on
QuoteSendSurvivingClose ==
    /\ q_pc = "send"
    /\ IF ~quote_rx_open
       THEN /\ q_pc' = "select"
            /\ UNCHANGED <<quote_q, quote_sent>>
       ELSE /\ ChanHasRoom(quote_q)
            /\ quote_q' = Append(quote_q, q_quotes)
            /\ quote_sent' = Append(quote_sent, q_quotes)
            /\ q_pc' = "select"
    /\ UNCHANGED <<offIngest, cancelled, runVars, budget, marketVars,
                   markets_tbl, q_ids, q_quotes, q_clock, quote_rx_open,
                   qwriter_pc, quoteTbls, quote_log, ruleVars, at_cancel>>

\* quote_tx.send(quotes).await
QuoteSend ==
    /\ q_pc = "send"
    /\ IF ~quote_rx_open
       THEN /\ q_pc' = "done"
            /\ UNCHANGED <<quote_q, quote_sent>>
       ELSE /\ ChanHasRoom(quote_q)
            /\ quote_q' = Append(quote_q, q_quotes)
            /\ quote_sent' = Append(quote_sent, q_quotes)
            /\ q_pc' = "select"
    /\ UNCHANGED <<offIngest, cancelled, runVars, budget, marketVars,
                   markets_tbl, q_ids, q_quotes, q_clock, quote_rx_open,
                   qwriter_pc, quoteTbls, quote_log, ruleVars, at_cancel>>

(***************************************************************************)
(* quote_persistence_task                                                  *)
(***************************************************************************)
\* `for quote in &quotes { insert_quote_5m(&pool, quote).await }`: oks[i]
\* tells whether the i-th insert succeeds; a failure is logged and the loop
\* goes on
RECURSIVE InsertQuotes5m(_, _, _)
InsertQuotes5m(tbl, quotes, oks) ==
    IF quotes = <<>> THEN tbl
    ELSE InsertQuotes5m(
            IF Head(oks) THEN InsertQuote5m(tbl, Head(quotes)) ELSE tbl,
            Tail(quotes), Tail(oks))

\* a writer that gives up on a batch at its first failed storage call
QuoteRecvStoppingAtError ==
    /\ qwriter_pc = "select"
    /\ quote_q # <<>>
    /\ quote_q' = Tail(quote_q)
    /\ LET quotes == Head(quote_q) IN
       \E ok \in BOOLEAN, oks \in [1..Len(quotes) -> BOOLEAN] :
         LET done == [i \in 1..Len(quotes) |->
                        ok /\ \A j \in 1..i : oks[j]] IN
         /\ quotes_latest' = IF ok THEN UpsertQuotesLatestBatch(quotes_latest, quotes)
                                   ELSE quotes_latest
         /\ quotes_5m' = InsertQuotes5m(quotes_5m, quotes, done)
         /\ quote_log' = Append(quote_log,
                                [quotes |-> quotes, ok |-> ok, oks |-> oks])
    /\ UNCHANGED <<offIngest, cancelled, runVars, budget, marketVars,
                   markets_tbl, qpollVars, quote_rx_open, qwriter_pc,
                   quote_sent, ruleVars, at_cancel>>

\* select!: Some(quotes) = quote_rx.recv()
QuoteRecv ==
    /\ qwriter_pc = "select"
    /\ quote_q # <<>>
    /\ quote_q' = Tail(quote_q)
    /\ LET quotes == Head(quote_q) IN
       \E ok \in BOOLEAN, oks \in [1..Len(quotes) -> BOOLEAN] :
         /\ quotes_latest' = IF ok THEN UpsertQuotesLatestBatch(quotes_latest, quotes)
                                   ELSE quotes_latest
         /\ quotes_5m' = InsertQuotes5m(quotes_5m, quotes, oks)
         /\ quote_log' = Append(quote_log,
                                [quotes |-> quotes, ok |-> ok, oks |-> oks])
    /\ UNCHANGED <<offIngest, cancelled, runVars, budget, marketVars,
                   markets_tbl, qpollVars, quote_rx_open, qwriter_pc,
                   quote_sent, ruleVars, at_cancel>>

QuoteWriterCancelled ==
    /\ qwriter_pc = "select"
    /\ cancelled
    /\ qwriter_pc' = "done"
    /\ quote_rx_open' = FALSE
    /\ quote_q' = <<>>
    /\ UNCHANGED <<offIngest, cancelled, runVars, budget, marketVars,
                   markets_tbl, qpollVars, quoteTbls, quoteHist, ruleVars,
                   at_cancel>>

(***************************************************************************)
(* rule_extraction_task                                                    *)
(***************************************************************************)
\* select!: ticker.tick() is ready; markets::list_active_markets(.., 100).await
RuleTick ==
    /\ r_pc = "select"
    /\ budget.rules > 0
    /\ budget' = [budget EXCEPT !.rules = @ - 1]
    /\ \E ok \in BOOLEAN :
         LET ms == ListActiveMarkets(markets_tbl, RuleMarketsLimit) IN
         IF ok /\ ms # <<>>
         THEN /\ r_markets' = ms
              /\ r_pc' = "get_rules"
         ELSE \* Err(e): continue; no market: the for loop has no iteration
              /\ r_markets' = <<>>
              /\ r_pc' = "select"
    /\ UNCHANGED <<offIngest, cancelled, runVars, marketVars, markets_tbl,
                   quoteVars, r_rule, r_result, r_differs, rchanVars,
                   rwriter_pc, rules_latest, ruleHist, at_cancel>>

RuleCancelled ==
    /\ r_pc = "select"
    /\ cancelled
    /\ r_pc' = "done"
    /\ UNCHANGED <<offIngest, cancelled, runVars, budget, marketVars,
                   markets_tbl, quoteVars, r_markets, r_rule, r_result,
                   r_differs, rchanVars, rwriter_pc, rules_latest, ruleHist,
                   at_cancel>>

\* the position after the loop body for Head(r_markets)
RuleNextPc == IF Tail(r_markets) = <<>> THEN "select" ELSE "get_rules"

\* client.get_rules(&market.market_id).await
RuleGetRules ==
    /\ r_pc = "get_rules"
    /\ \/ \E h \in Hashes :
            /\ r_rule' = [market_id |-> Head(r_markets), rule_hash |-> h]
            /\ r_pc' = "check"
            /\ UNCHANGED r_markets
       \/ \* Err(e): "Rule extraction failed", next market
          /\ r_markets' = Tail(r_markets)
          /\ r_pc' = RuleNextPc
          /\ UNCHANGED r_rule
    /\ UNCHANGED <<offIngest, cancelled, runVars, budget, marketVars,
                   markets_tbl, quoteVars, r_result, r_differs, rchanVars,
                   rwriter_pc, rules_latest, ruleHist, at_cancel>>

\* an extraction task that enqueues every rule it fetched
EnqueueAlways(result) == TRUE

\* an extraction task that skips the rule when has_rule_changed fails
HasChangedOkOnly(result) == result = "true"

\* has_changed: Ok(changed) => changed, Err(e) => true
HasChanged(result) == result # "false"

\* rules::has_rule_changed(&pool, &rule.market_id, &rule.rule_hash).await,
\* the match on its result and `if has_changed`
RuleCheck ==
    /\ r_pc = "check"
    /\ \/ r_result' = IF HasRuleChanged(rules_latest, r_rule.market_id,
                                        r_rule.rule_hash)
                      THEN "true" ELSE "false"
       \/ r_result' = "err"
    /\ r_differs' = (r_result' = "err"
                      \/ rules_latest[r_rule.market_id] # r_rule.rule_hash)
    /\ IF HasChanged(r_result')
       THEN /\ r_pc' = "send"
            /\ UNCHANGED r_markets
       ELSE /\ r_markets' = Tail(r_markets)
            /\ r_pc' = RuleNextPc
    /\ UNCHANGED <<offIngest, cancelled, runVars, budget, marketVars,
                   markets_tbl, quoteVars, r_rule, rchanVars, rwriter_pc,
                   rules_latest, ruleHist, at_cancel>>

\* rule_tx.send(rule).await; the message carries, as history, the check
\* that let it through
RuleSend ==
    /\ r_pc = "send"
    /\ IF ~rule_rx_open
       THEN /\ r_pc' = "done"
            /\ UNCHANGED <<r_markets, rule_q, rule_sent>>
       ELSE /\ ChanHasRoom(rule_q)
            /\ rule_q' = Append(rule_q, [rule |-> r_rule, differs |-> r_differs])
            /\ rule_sent' = rule_sent + 1
            /\ r_markets' = Tail(r_markets)
            /\ r_pc' = RuleNextPc
    /\ UNCHANGED <<offIngest, cancelled, runVars, budget, marketVars,
                   markets_tbl, quoteVars, r_rule, r_result, r_differs,
                   rule_rx_open, rwriter_pc, rules_latest, rule_upserts,
                   rule_last, at_cancel>>

(***************************************************************************)
(* rule_persistence_task                                                   *)
(***************************************************************************)
\* select!: Some(rule) = rule_rx.recv(), rules::upsert_rule(&pool, &rule).await
RuleRecv ==
    /\ rwriter_pc = "select"
    /\ rule_q # <<>>
    /\ rule_q' = Tail(rule_q)
    /\ LET msg == Head(rule_q) IN
       \E ok \in BOOLEAN :
         /\ rules_latest' = IF ok THEN UpsertRule(rules_latest, msg.rule)
                                  ELSE rules_latest
         /\ rule_last' = <<[msg |-> msg, ok |-> ok,
                            stored |-> rules_latest[msg.rule.market_id]]>>
    /\ rule_upserts' = rule_upserts + 1
    /\ UNCHANGED <<offIngest, cancelled, runVars, budget, marketVars,
                   markets_tbl, quoteVars, rextVars, rule_rx_open, rwriter_pc,
                   rule_sent, at_cancel>>

RuleWriterCancelled ==
    /\ rwriter_pc = "select"
    /\ cancelled
    /\ rwriter_pc' = "done"
    /\ rule_rx_open' = FALSE
    /\ rule_q' = <<>>
    /\ UNCHANGED <<offIngest, cancelled, runVars, budget, marketVars,
                   markets_tbl, quoteVars, rextVars, rules_latest, ruleHist,
                   at_cancel>>

(***************************************************************************)
(* IngestOrchestrator::run                                                 *)
(***************************************************************************)
\* handles, in the order run() pushes them
Handles == <<"discovery", "quote_polling", "rule_extraction",
             "market_persistence", "quote_persistence", "rule_persistence">>

\* a run() that does not wait for its handles
TaskDetached(t) == TRUE

\* the task's future has completed
TaskDone(t) ==
    CASE t = "discovery" -> d_pc = "done"
      [] t = "quote_polling" -> q_pc = "done"
      [] t = "rule_extraction" -> r_pc = "done"
      [] t = "market_persistence" -> w_pc = "done"
      [] t = "quote_persistence" -> qwriter_pc = "done"
      [] t = "rule_persistence" -> rwriter_pc = "done"

\* self.cancellation.cancelled().await returns
RunCancelled ==
    /\ run_pc = "waiting"
    /\ cancelled
    /\ run_pc' = "joining"
    /\ UNCHANGED <<offIngest, cancelled, join_idx, budget, marketVars,
                   markets_tbl, quoteVars, ruleVars, at_cancel>>

\* for handle in handles { let _ = handle.await; }, then Ok(())
RunJoin ==
    /\ run_pc = "joining"
    /\ TaskDone(Handles[join_idx])
    /\ IF join_idx = Len(Handles)
       THEN run_pc' = "returned" /\ UNCHANGED join_idx
       ELSE join_idx' = join_idx + 1 /\ UNCHANGED run_pc
    /\ UNCHANGED <<offIngest, cancelled, budget, marketVars, markets_tbl,
                   quoteVars, ruleVars, at_cancel>>

\* ---------------------------------------------------------------------
\* retry_with_backoff (crates/ingest/src/retry.rs)

\* the errors operation() may return; the function is generic in E
ErrorKinds == {"transient", "permanent"}

\* the configurations tried; nothing validates a RetryConfig, so an
\* initial_delay_ms above max_delay_ms is among them
RetryConfigs ==
    [max_attempts : 0..MaxMaxAttempts,
     initial_delay_ms : {0, 10, 40},
     max_delay_ms : {10, 25},
     jitter : BOOLEAN]

\* a jitter of up to the whole delay either way
JitterDelaysWide(delay_ms) == 0..(2 * delay_ms)

\* (delay_ms as f64 * jitter) as u64 for a jitter in [0.85, 1.15)
JitterDelays(delay_ms) ==
    IF delay_ms = 0 THEN {0}
    ELSE {x \in 0..(2 * delay_ms) :
             100 * (x + 1) > 85 * delay_ms /\ 100 * x < 115 * delay_ms}

\* a comparison that allows one more attempt
ExhaustedOffByOne(attempt, max_attempts) == attempt > max_attempts

\* attempt >= config.max_attempts
Exhausted(attempt, max_attempts) == attempt >= max_attempts

\* attempt += 1; match operation().await
RetryCall ==
    /\ rt_pc = "call"
    /\ rt_attempt' = rt_attempt + 1
    /\ \/ \* Ok(result) => return Ok(result)
          /\ rt_calls' = Append(rt_calls, "ok")
          /\ rt_result' = <<"ok">>
          /\ rt_pc' = "returned"
       \/ \* Err(err)
          \E err \in ErrorKinds :
              /\ rt_calls' = Append(rt_calls, err)
              /\ IF Exhausted(rt_attempt', rt_config.max_attempts)
                 THEN /\ rt_result' = <<err>>
                      /\ rt_pc' = "returned"
                 ELSE /\ rt_result' = rt_result
                      /\ rt_pc' = "sleep"
    /\ UNCHANGED <<rt_config, rt_delay_ms, rt_sleeps, offRetry>>

\* sleep(actual_delay); delay_ms = (delay_ms * 2).min(config.max_delay_ms)
RetrySleep ==
    /\ rt_pc = "sleep"
    /\ \E actual_delay \in (IF rt_config.jitter THEN JitterDelays(rt_delay_ms)
                                                ELSE {rt_delay_ms}) :
           rt_sleeps' = Append(rt_sleeps, actual_delay)
    /\ rt_delay_ms' = Min(rt_delay_ms * 2, rt_config.max_delay_ms)
    /\ rt_pc' = "call"
    /\ UNCHANGED <<rt_config, rt_attempt, rt_result, rt_calls, offRetry>>

\* no retry_with_backoff call in progress
RetryIdle ==
    /\ rt_config = [max_attempts |-> 0, initial_delay_ms |-> 0,
                    max_delay_ms |-> 10, jitter |-> FALSE]
    /\ rt_pc = "idle"
    /\ rt_attempt = 0 /\ rt_delay_ms = 0
    /\ rt_result = <<>> /\ rt_calls = <<>> /\ rt_sleeps = <<>>

\* ---------------------------------------------------------------------
\* f64 arithmetic.  A value is NaN, an infinity or a finite number; a
\* finite number is kept as an exact fraction n/d in lowest terms, so the
\* rounding of f64 operations and the sign of zero are not represented.

\* Option<T>
None == [some |-> FALSE]
Some(v) == [some |-> TRUE, v |-> v]

\* Result<T, E>
Ok(v) == [ok |-> TRUE, v |-> v]
Err(e) == [ok |-> FALSE, e |-> e]

Abs(i) == IF i < 0 THEN -i ELSE i

RECURSIVE GCD(_, _)
GCD(a, b) == IF b = 0 THEN a ELSE GCD(b, a % b)

\* the finite value n/d, d # 0
R(n, d) ==
    LET g == GCD(Abs(n), Abs(d))
        sg == IF d < 0 THEN -1 ELSE 1
    IN  [k |-> "fin", n |-> sg * (n \div g), d |-> sg * (d \div g)]

NaN == [k |-> "nan", n |-> 0, d |-> 1]
Inf(sign) == [k |-> "inf", n |-> sign, d |-> 1]
Zero == R(0, 1)
One == R(1, 1)

\* -1, 0 or 1; not defined on NaN
Sgn(x) == IF x.n < 0 THEN -1 ELSE IF x.n > 0 THEN 1 ELSE 0

FNeg(x) == [x EXCEPT !.n = -x.n]

\* a + b
FAdd(a, b) ==
    IF a.k = "nan" \/ b.k = "nan" THEN NaN
    ELSE IF a.k = "inf" THEN (IF b.k = "inf" /\ b.n # a.n THEN NaN ELSE a)
    ELSE IF b.k = "inf" THEN b
    ELSE LET g == GCD(a.d, b.d) IN
         R(a.n * (b.d \div g) + b.n * (a.d \div g), (a.d \div g) * b.d)

\* a - b
FSub(a, b) == FAdd(a, FNeg(b))

\* a * b
FMul(a, b) ==
    IF a.k = "nan" \/ b.k = "nan" THEN NaN
    ELSE IF a.k = "inf" \/ b.k = "inf"
         THEN (IF Sgn(a) * Sgn(b) = 0 THEN NaN ELSE Inf(Sgn(a) * Sgn(b)))
    ELSE LET g1 == GCD(Abs(a.n), b.d)
             g2 == GCD(Abs(b.n), a.d)
         IN  R((a.n \div g1) * (b.n \div g2), (a.d \div g2) * (b.d \div g1))

\* a / b
FDiv(a, b) ==
    IF a.k = "nan" \/ b.k = "nan" THEN NaN
    ELSE IF b.k = "inf" THEN (IF a.k = "inf" THEN NaN ELSE Zero)
    ELSE IF b.n = 0 THEN (IF Sgn(a) = 0 THEN NaN ELSE Inf(Sgn(a)))
    ELSE IF a.k = "inf" THEN Inf(Sgn(a) * Sgn(b))
    ELSE FMul(a, R(b.d, b.n))

\* a < b: false when either is NaN
FLt(a, b) ==
    /\ a.k # "nan" /\ b.k # "nan"
    /\ Sgn(FSub(b, a)) = 1

\* a <= b: false when either is NaN
FLe(a, b) ==
    /\ a.k # "nan" /\ b.k # "nan"
    /\ a = b \/ FLt(a, b)

\* f64::clamp(x, min, max): NaN stays NaN
FClamp(x, min, max) ==
    IF FLt(x, min) THEN min ELSE IF FLt(max, x) THEN max ELSE x

\* f64::max(a, b): the other one when one is NaN
FMax(a, b) ==
    IF a.k = "nan" THEN b ELSE IF b.k = "nan" THEN a
    ELSE IF FLt(a, b) THEN b ELSE a

\* i as f64
FromInt(i) == R(i, 1)

\* ---------------------------------------------------------------------
\* ScoringEngine (crates/scoring/src/engine.rs); times are in milliseconds

\* ScoringConfig::default()
DefaultScoringConfig ==
    [weights |-> [w1 |-> R(45, 100), w2 |-> R(25, 100), w3 |-> R(15, 100),
                  w4 |-> R(10, 100), w5 |-> R(5, 100)],
     bounds |-> [min_t_remaining_sec |-> 3600,
                 max_t_remaining_sec |-> 1209600,
                 quote_stale_max_sec |-> 180,
                 min_t_days |-> R(25, 100),
                 spread_target |-> R(2, 100)],
     fee_bps |-> R(120, 1),
     sizing |-> [base_position_pct |-> R(10, 100)]]

\* TimeDelta::num_seconds of a difference of d milliseconds: whole seconds,
\* rounded towards zero
num_seconds(d) == IF d >= 0 THEN d \div 1000 ELSE -((-d) \div 1000)

\* a penalty that is the ratio itself, without the clamp
staleness_ratio(config, staleness_sec) ==
    FDiv(FromInt(staleness_sec), FromInt(config.bounds.quote_stale_max_sec))

calculate_staleness_penalty(config, staleness_sec) ==
    LET ratio == FDiv(FromInt(staleness_sec),
                      FromInt(config.bounds.quote_stale_max_sec))
    IN  FClamp(ratio, Zero, One)

\* a liquidity score that does not look at the spread
liquidity_ignoring_spread(config, no_bid, no_ask, staleness_penalty) ==
    FSub(One, staleness_penalty)

\* a liquidity score without the staleness penalty
liquidity_unpenalised(config, no_bid, no_ask, staleness_penalty) ==
    FClamp(FSub(One, FDiv(FSub(no_ask, no_bid), config.bounds.spread_target)),
           Zero, One)

calculate_liquidity_score(config, no_bid, no_ask, staleness_penalty) ==
    LET spread_no == FSub(no_ask, no_bid)
        spread_ratio == FDiv(spread_no, config.bounds.spread_target)
        raw_score == FClamp(FSub(One, spread_ratio), Zero, One)
    IN  FMul(raw_score, FSub(One, staleness_penalty))

calculate_overall_score(config, yield_velocity, net_yield, liquidity_score, definition_risk_score, staleness_penalty) ==
    LET w == config.weights
        norm_velocity == FClamp(FDiv(yield_velocity, One), Zero, One)
        norm_net_yield == FClamp(FDiv(net_yield, R(1, 2)), Zero, One)
        score ==
            FSub(FSub(FAdd(FAdd(FMul(w.w1, norm_velocity),
                                FMul(w.w2, norm_net_yield)),
                           FMul(w.w3, liquidity_score)),
                      FMul(w.w4, definition_risk_score)),
                 FMul(w.w5, staleness_penalty))
    IN  FClamp(score, Zero, One)

\* a position size without the haircuts
position_size_no_haircut(config, score) ==
    FClamp(config.sizing.base_position_pct, R(1, 100), R(10, 100))

\* a position size without the final clamp
position_size_unclamped(config, score) ==
    FMul(FMul(config.sizing.base_position_pct,
              FSub(One, score.definition_risk_score)),
         FAdd(R(1, 2), FMul(R(1, 2), score.liquidity_score)))

calculate_position_size(config, score) ==
    LET base == config.sizing.base_position_pct
        risk_haircut == FSub(One, score.definition_risk_score)
        liq_haircut == FAdd(R(1, 2), FMul(R(1, 2), score.liquidity_score))
        position_pct == FMul(FMul(base, risk_haircut), liq_haircut)
    IN  FClamp(position_pct, R(1, 100), R(10, 100))

\* the body of compute_score after both price checks
ScoreOf(config, t_remaining_sec, staleness_sec, no_bid, no_ask, rule, now) ==
    LET staleness_penalty == calculate_staleness_penalty(config, staleness_sec)
        gross_yield == no_bid
        fee_rate == FDiv(config.fee_bps, R(10000, 1))
        net_yield == FMul(gross_yield, FSub(One, fee_rate))
        t_days == FDiv(FromInt(t_remaining_sec), R(86400, 1))
        t_days_clamped == FMax(t_days, config.bounds.min_t_days)
        yield_velocity == FDiv(net_yield, t_days_clamped)
        liquidity_score ==
            calculate_liquidity_score(config, no_bid, no_ask, staleness_penalty)
        definition_risk_score ==
            IF rule.some THEN rule.v.definition_risk_score ELSE Zero
    IN  [as_of |-> now,
         t_remaining_sec |-> t_remaining_sec,
         gross_yield |-> gross_yield,
         fee_bps |-> config.fee_bps,
         net_yield |-> net_yield,
         yield_velocity |-> yield_velocity,
         liquidity_score |-> liquidity_score,
         staleness_sec |-> staleness_sec,
         staleness_penalty |-> staleness_penalty,
         definition_risk_score |-> definition_risk_score,
         overall_score |->
             calculate_overall_score(config, yield_velocity, net_yield,
                                     liquidity_score, definition_risk_score,
                                     staleness_penalty)]

\* an eligibility check whose bounds are exclusive
OutsideOrAtBounds(config, t_remaining_sec) ==
    \/ t_remaining_sec <= config.bounds.min_t_remaining_sec
    \/ t_remaining_sec >= config.bounds.max_t_remaining_sec

\* an eligibility check that rejects nothing
GateOpen(config, t_remaining_sec) == FALSE

\* the eligibility check of compute_score
OutsideBounds(config, t_remaining_sec) ==
    \/ t_remaining_sec < config.bounds.min_t_remaining_sec
    \/ t_remaining_sec > config.bounds.max_t_remaining_sec

compute_score(config, market, quote, rule, now) ==
    IF ~market.close_time.some THEN Err("InvalidMarket")
    ELSE LET t_remaining_sec == num_seconds(market.close_time.v - now) IN
         IF OutsideBounds(config, t_remaining_sec)
         THEN Err("InvalidMarket")
         ELSE IF ~quote.no_bid.some THEN Err("MissingQuote")
         ELSE IF ~quote.no_ask.some THEN Err("MissingQuote")
         ELSE Ok(ScoreOf(config, t_remaining_sec,
                         num_seconds(now - quote.as_of),
                         quote.no_bid.v, quote.no_ask.v, rule, now))

generate_recommendation(config, market, score, quote, rule) ==
    [as_of |-> score.as_of,
     recommended_side |-> "NO",
     entry_price |-> IF quote.no_bid.some THEN quote.no_bid.v ELSE Zero,
     expected_payout |-> One,
     max_position_pct |-> calculate_position_size(config, score),
     risk_score |-> FAdd(score.definition_risk_score, score.staleness_penalty)]

\* engine.compute_score(market, quote, rule, now)
ComputeScore ==
    /\ eng_pc = "compute"
    /\ eng_score' =
           Some(compute_score(eng_config, eng_market, eng_quote, eng_rule,
                              eng_now))
    /\ eng_pc' = IF eng_score'.v.ok THEN "recommend" ELSE "done"
    /\ UNCHANGED <<eng_config, eng_market, eng_quote, eng_rule, eng_now,
                   eng_rec, offEngine>>

\* engine.generate_recommendation(market, score, quote, rule), on the
\* Score compute_score returned
GenerateRecommendation ==
    /\ eng_pc = "recommend"
    /\ eng_rec' =
           Some(generate_recommendation(eng_config, eng_market,
                                        eng_score.v.v, eng_quote, eng_rule))
    /\ eng_pc' = "done"
    /\ UNCHANGED <<eng_config, eng_market, eng_quote, eng_rule, eng_now,
                   eng_score, offEngine>>

\* no engine call in progress
EngineIdle ==
    /\ eng_config = DefaultScoringConfig
    /\ eng_market = [close_time |-> None]
    /\ eng_quote = [as_of |-> 0, no_bid |-> None, no_ask |-> None]
    /\ eng_rule = None
    /\ eng_now = 0
    /\ eng_pc = "idle"
    /\ eng_score = None /\ eng_rec = None

\* ---------------------------------------------------------------------
\* bucket_to_5m (crates/storage/src/quotes.rs) on a DateTime<Utc> kept as
\* [secs, nanos]: whole seconds since the epoch and the nanosecond field,
\* which chrono lets run to 1_999_999_999 inside a leap second.  BucketTo5m
\* above is the same function on the polling clock of the quote tasks.

minute(dt) == (dt.secs \div 60) % 60
second(dt) == dt.secs % 60

\* Timelike::with_minute, with_second, with_nanosecond
with_minute(dt, min) ==
    IF min >= 60 THEN None
    ELSE Some([dt EXCEPT !.secs = dt.secs - (minute(dt) - min) * 60])

\* a with_second that leaves the seconds as they are
with_second_kept(dt, sec) == Some(dt)

with_second(dt, sec) ==
    IF sec >= 60 THEN None
    ELSE Some([dt EXCEPT !.secs = dt.secs - second(dt) + sec])

with_nanosecond(dt, nano) ==
    IF nano >= 2000000000 THEN None ELSE Some([dt EXCEPT !.nanos = nano])

bucket_to_5m(dt) ==
    LET minutes == minute(dt)
        bucket_minutes == (minutes \div 5) * 5
        m == with_minute(dt, bucket_minutes)
        ms == IF m.some THEN with_second(m.v, 0) ELSE None
        msn == IF ms.some THEN with_nanosecond(ms.v, 0) ELSE None
    IN  IF msn.some THEN msn.v ELSE dt

\* bucket_to_5m(dt)
Bucket ==
    /\ bk_pc = "bucket"
    /\ bk_out' = Some(bucket_to_5m(bk_dt))
    /\ bk_pc' = "again"
    /\ UNCHANGED <<bk_dt, bk_again, offBucket>>

\* bucket_to_5m on the bucket start just computed
BucketAgain ==
    /\ bk_pc = "again"
    /\ bk_again' = Some(bucket_to_5m(bk_out.v))
    /\ bk_pc' = "done"
    /\ UNCHANGED <<bk_dt, bk_out, offBucket>>

\* no bucket_to_5m call in progress
BucketIdle ==
    /\ bk_dt = [secs |-> 0, nanos |-> 0]
    /\ bk_pc = "idle"
    /\ bk_out = None /\ bk_again = None

\* ---------------------------------------------------------------------
\* quotes::insert_quote_5m (crates/storage/src/quotes.rs) called on its own
\* table, by any caller and in any order

\* the quotes tried: two markets, every poll time of the quote clock
Quotes5m ==
    [market_id : {m \in MarketIds : m <= 2}, as_of : 1..(MaxCycles + 2)]

\* quotes_5m with no row
EmptyQuotes5m ==
    [k \in MarketIds \X {BucketTo5m(t) : t \in 0..(MaxCycles + 2)} |-> NoRow]

\* insert_quote_5m(pool, quote).await; the statement may fail
InsertQuote5mCall ==
    /\ Len(q5_calls) < MaxInserts5m
    /\ \E quote \in Quotes5m, ok \in BOOLEAN :
         /\ q5_tbl' = IF ok THEN InsertQuote5m(q5_tbl, quote) ELSE q5_tbl
         /\ q5_calls' = Append(q5_calls, [quote |-> quote, ok |-> ok])
    /\ UNCHANGED offQuotes5m

\* no insert_quote_5m call made
Quotes5mIdle == q5_tbl = EmptyQuotes5m /\ q5_calls = <<>>

\* ---------------------------------------------------------------------
\* PolymarketClient::get_quotes (crates/ingest/src/client.rs): the Quote
\* built from one market's order book

\* the last level of a side of the book
LastLevel(levels) ==
    IF levels = <<>> THEN None ELSE Some(levels[Len(levels)])

\* book.bids.first().map(|b| b.price)
FirstLevel(levels) == IF levels = <<>> THEN None ELSE Some(levels[1])

\* match (bid, ask) { (Some(bid), Some(ask)) => Some(ask - bid), _ => None }
SpreadOf(bid, ask) ==
    IF bid.some /\ ask.some THEN Some(FSub(ask.v, bid.v)) ELSE None

\* match (bid, ask) { (Some(bid), Some(ask)) => Some((bid + ask) / 2.0), .. }
MidOf(bid, ask) ==
    IF bid.some /\ ask.some THEN Some(FDiv(FAdd(bid.v, ask.v), R(2, 1)))
    ELSE None

\* the Quote get_quotes pushes for a book
QuoteOfBook(book) ==
    LET yes_bid == FirstLevel(book.bids)
        yes_ask == FirstLevel(book.asks)
        no_bid == IF yes_ask.some THEN Some(FSub(One, yes_ask.v)) ELSE None
        no_ask == IF yes_bid.some THEN Some(FSub(One, yes_bid.v)) ELSE None
    IN  [yes_bid |-> yes_bid,
         yes_ask |-> yes_ask,
         no_bid |-> no_bid,
         no_ask |-> no_ask,
         spread_yes |-> SpreadOf(yes_bid, yes_ask),
         spread_no |-> SpreadOf(no_bid, no_ask),
         mid_yes |-> MidOf(yes_bid, yes_ask),
         mid_no |-> MidOf(no_bid, no_ask)]

\* Ok(resp) => { ...; quotes.push(Quote { .. }) }
DeriveQuote ==
    /\ ~cq_quote.some
    /\ cq_book.fetched
    /\ cq_quote' = Some(QuoteOfBook(cq_book))
    /\ UNCHANGED <<cq_book, offClient>>

\* no book fetched
ClientIdle ==
    /\ cq_book = [fetched |-> FALSE, bids |-> <<>>, asks |-> <<>>]
    /\ cq_quote = None

\* ---------------------------------------------------------------------
\* GET /v1/opportunities (crates/api/src/handlers/opportunities.rs)

\* ApiConfig::default(): the page sizes
DefaultApiConfig == [max_page_size |-> 100, default_page_size |-> 20]

\* params.limit.unwrap_or(default_page_size).min(max_page_size)
PageLimit(config, params) ==
    Min(IF params.limit.some THEN params.limit.v
                             ELSE config.default_page_size,
        config.max_page_size)

\* params.offset.unwrap_or(0)
PageOffset(params) == IF params.offset.some THEN params.offset.v ELSE 0

\* opportunities_handler up to recs::list_recs(.., limit, offset).await
HandlerListRecs ==
    /\ api_pc = "handle"
    /\ api_call' = Some([limit |-> PageLimit(api_config, api_params),
                         offset |-> PageOffset(api_params)])
    /\ api_pc' = "list_recs"
    /\ UNCHANGED <<api_config, api_params, api_resp, offApi>>

\* list_recs returns; on Ok the handler calls recs::count_recs(..).await
HandlerCountRecs ==
    /\ api_pc = "list_recs"
    /\ \/ /\ api_pc' = "count_recs"
          /\ UNCHANGED api_resp
       \/ \* map_err: 500 "Failed to fetch opportunities"
          /\ api_resp' = Some(Err(500))
          /\ api_pc' = "done"
    /\ UNCHANGED <<api_config, api_params, api_call, offApi>>

\* count_recs returns; on Ok the handler answers with the page
HandlerRespond ==
    /\ api_pc = "count_recs"
    /\ \/ api_resp' = Some(Ok([limit |-> api_call.v.limit,
                               offset |-> api_call.v.offset]))
       \/ \* map_err: 500 "Failed to count opportunities"
          api_resp' = Some(Err(500))
    /\ api_pc' = "done"
    /\ UNCHANGED <<api_config, api_params, api_call, offApi>>

\* no request
ApiIdle ==
    /\ api_config = DefaultApiConfig
    /\ api_params = [limit |-> None, offset |-> None]
    /\ api_pc = "idle"
    /\ api_call = None /\ api_resp = None

\* ---------------------------------------------------------------------
\* The batch writes: markets::upsert_markets_batch, quotes::
\* upsert_quotes_latest_batch, scores::upsert_scores_batch and recs::
\* upsert_recs_batch (crates/storage).  All four open a transaction, run
\* one INSERT .. ON CONFLICT (market_id) DO UPDATE per row on it and
\* commit; the last two serialise a JSON column before each statement.  A
\* row is [market_id, v]; the table is what other connections read, the
\* transaction's own view is bt_tx.  Every await may fail, and `?` then
\* returns, which drops the transaction and rolls it back.

BatchFns ==
    {"upsert_markets_batch", "upsert_quotes_latest_batch",
     "upsert_scores_batch", "upsert_recs_batch"}

\* the batch functions that call serde_json::to_value for each row
SerialisingFns == {"upsert_scores_batch", "upsert_recs_batch"}

\* INSERT .. ON CONFLICT (market_id) DO UPDATE SET ..
UpsertRow(tbl, row) == [tbl EXCEPT ![row.market_id] = row.v]

\* let mut tx = pool.begin().await?, after the is_empty() return
BatchBegin ==
    /\ bt_pc = "call"
    /\ IF bt_rows = <<>>
       THEN /\ bt_result' = Some(Ok("unit"))
            /\ bt_pc' = "returned"
            /\ UNCHANGED bt_tx
       ELSE \/ /\ bt_tx' = Some(bt_tbl)
               /\ bt_pc' = "execute"
               /\ UNCHANGED bt_result
            \/ /\ bt_result' = Some(Err("begin"))
               /\ bt_pc' = "returned"
               /\ UNCHANGED bt_tx
    /\ UNCHANGED <<bt_fn, bt_rows, bt_tbl, bt_i, bt_before, offBatch>>

\* one turn of the loop with the statement run on the pool, outside the
\* transaction
BatchExecuteOnPool ==
    /\ bt_pc = "execute"
    /\ \/ /\ bt_tbl' = UpsertRow(bt_tbl, bt_rows[bt_i + 1])
          /\ bt_i' = bt_i + 1
          /\ bt_pc' = IF bt_i + 1 = Len(bt_rows) THEN "commit" ELSE "execute"
          /\ UNCHANGED <<bt_tx, bt_result>>
       \/ \E e \in {"execute"} \cup (IF bt_fn \in SerialisingFns
                                     THEN {"to_value"} ELSE {}) :
            /\ bt_tx' = None
            /\ bt_result' = Some(Err(e))
            /\ bt_pc' = "returned"
            /\ UNCHANGED <<bt_tbl, bt_i>>
    /\ UNCHANGED <<bt_fn, bt_rows, bt_before, offBatch>>

\* one turn of `for row in rows`: (serde_json::to_value(..)?;)
\* sqlx::query!(..).execute(&mut *tx).await?
BatchExecute ==
    /\ bt_pc = "execute"
    /\ \/ /\ bt_tx' = Some(UpsertRow(bt_tx.v, bt_rows[bt_i + 1]))
          /\ bt_i' = bt_i + 1
          /\ bt_pc' = IF bt_i + 1 = Len(bt_rows) THEN "commit" ELSE "execute"
          /\ UNCHANGED bt_result
       \/ \E e \in {"execute"} \cup (IF bt_fn \in SerialisingFns
                                     THEN {"to_value"} ELSE {}) :
            /\ bt_tx' = None
            /\ bt_result' = Some(Err(e))
            /\ bt_pc' = "returned"
            /\ UNCHANGED bt_i
    /\ UNCHANGED <<bt_fn, bt_rows, bt_tbl, bt_before, offBatch>>

\* tx.commit().await?; Ok(())
BatchCommit ==
    /\ bt_pc = "commit"
    /\ \/ /\ bt_tbl' = bt_tx.v
          /\ bt_result' = Some(Ok("unit"))
       \/ /\ bt_result' = Some(Err("commit"))
          /\ UNCHANGED bt_tbl
    /\ bt_tx' = None
    /\ bt_pc' = "returned"
    /\ UNCHANGED <<bt_fn, bt_rows, bt_i, bt_before, offBatch>>

\* no batch write in progress
BatchIdle ==
    /\ bt_fn = "upsert_markets_batch"
    /\ bt_rows = <<>>
    /\ bt_tbl = [m \in MarketIds |-> NoRow]
    /\ bt_tx = None
    /\ bt_i = 0
    /\ bt_pc = "idle"
    /\ bt_result = None
    /\ bt_before = bt_tbl

\* ---------------------------------------------------------------------
\* The scoring orchestrator (crates/scoring/src/orchestrator.rs).  A
\* position of sc_pc is the await the task is parked on: "select" in the
\* run loop, or the storage call of run_scoring_cycle that is in flight.
\* The markets table is the set of market ids that have a row; a row of
\* scores_latest or recs_latest is the number of the cycle that wrote it.

\* the markets the scoring model works on
ScoringMarkets == {m \in MarketIds : m <= 2}

\* upsert_scores_batch / upsert_recs_batch committing: a row for each
\* market of the batch and no other row, everything else dropped
UpsertLatestReplacing(tbl, ids, stamp) ==
    [m \in DOMAIN tbl |-> IF m \in ids THEN stamp ELSE NoRow]

\* upsert_scores_batch / upsert_recs_batch committing: one
\* INSERT .. ON CONFLICT (market_id) DO UPDATE per row of the batch
UpsertLatest(tbl, ids, stamp) ==
    [m \in DOMAIN tbl |-> IF m \in ids THEN stamp ELSE tbl[m]]

\* run_scoring_cycle returning, Ok or Err: run logs an Err and loops
CycleReturns ==
    /\ sc_pc' = "select"
    /\ sc_markets' = {}
    /\ sc_quoted' = {}
    /\ sc_computed' = {}

\* the ingest writer committing upsert_markets_batch while the scoring
\* task runs
MarketsUpserted ==
    /\ sc_pc # "done"
    /\ \E m \in ScoringMarkets \ sc_markets_tbl :
         sc_markets_tbl' = sc_markets_tbl \cup {m}
    /\ UNCHANGED <<sc_pc, sc_ticks, sc_cancelled, sc_markets, sc_quoted, sc_computed, sc_scores_tbl, sc_recs_tbl, sc_calls, sc_result, offScoring>>

\* cancellation_token().cancel() from outside
ScoringCancel ==
    /\ ~sc_cancelled
    /\ sc_pc # "done"
    /\ sc_cancelled' = TRUE
    /\ UNCHANGED <<sc_pc, sc_ticks, sc_markets_tbl, sc_markets, sc_quoted, sc_computed, sc_scores_tbl, sc_recs_tbl, sc_calls, sc_result, offScoring>>

\* a run that takes the cancellation at whatever await it is parked on
ScoringCancelledAnywhere ==
    /\ sc_pc # "done"
    /\ sc_cancelled
    /\ sc_pc' = "done"
    /\ sc_result' = Some(Ok("unit"))
    /\ UNCHANGED <<sc_ticks, sc_cancelled, sc_markets_tbl, sc_markets, sc_quoted, sc_computed, sc_scores_tbl, sc_recs_tbl, sc_calls, offScoring>>

\* run: the cancellation.cancelled() branch of select!
ScoringCancelled ==
    /\ sc_pc = "select"
    /\ sc_cancelled
    /\ sc_pc' = "done"
    /\ sc_result' = Some(Ok("unit"))
    /\ UNCHANGED <<sc_ticks, sc_cancelled, sc_markets_tbl, sc_markets, sc_quoted, sc_computed, sc_scores_tbl, sc_recs_tbl, sc_calls, offScoring>>

\* run: the ticker.tick() branch of select!, up to the first await of
\* run_scoring_cycle
ScoringTick ==
    /\ sc_pc = "select"
    /\ sc_ticks < MaxScoringCycles
    /\ sc_ticks' = sc_ticks + 1
    /\ sc_pc' = "list_active_markets"
    /\ sc_calls' = <<>>
    /\ UNCHANGED <<sc_cancelled, sc_markets_tbl, sc_markets, sc_quoted, sc_computed, sc_scores_tbl, sc_recs_tbl, sc_result, offScoring>>

\* list_active_markets returns: `?`, then the is_empty() return.  Which
\* rows of markets are open and inside the time window is the database's
\* answer at that moment.
ScoringListMarkets ==
    /\ sc_pc = "list_active_markets"
    /\ \E ok \in BOOLEAN, eligible \in SUBSET sc_markets_tbl :
         /\ sc_calls' = Append(sc_calls, [fn |-> "list_active_markets", ok |-> ok])
         /\ IF ~ok \/ eligible = {}
            THEN CycleReturns
            ELSE /\ sc_markets' = eligible
                 /\ sc_pc' = "get_quotes_latest_batch"
                 /\ UNCHANGED <<sc_quoted, sc_computed>>
    /\ UNCHANGED <<sc_ticks, sc_cancelled, sc_markets_tbl, sc_scores_tbl, sc_recs_tbl, sc_result, offScoring>>

\* get_quotes_latest_batch returns: `?`, then the quotes map
ScoringGetQuotes ==
    /\ sc_pc = "get_quotes_latest_batch"
    /\ \E ok \in BOOLEAN, quoted \in SUBSET sc_markets :
         /\ sc_calls' = Append(sc_calls, [fn |-> "get_quotes_latest_batch", ok |-> ok])
         /\ IF ~ok
            THEN CycleReturns
            ELSE /\ sc_quoted' = quoted
                 /\ sc_pc' = "get_rules_batch"
                 /\ UNCHANGED <<sc_markets, sc_computed>>
    /\ UNCHANGED <<sc_ticks, sc_cancelled, sc_markets_tbl, sc_scores_tbl, sc_recs_tbl, sc_result, offScoring>>

\* get_rules_batch returns: `?`, compute_scores_batch, which skips a
\* market that has no quote or whose compute_score is Err, then the
\* is_empty() return
ScoringGetRules ==
    /\ sc_pc = "get_rules_batch"
    /\ \E ok \in BOOLEAN, computed \in SUBSET (sc_markets \cap sc_quoted) :
         /\ sc_calls' = Append(sc_calls, [fn |-> "get_rules_batch", ok |-> ok])
         /\ IF ~ok \/ computed = {}
            THEN CycleReturns
            ELSE /\ sc_computed' = computed
                 /\ sc_pc' = "upsert_scores_batch"
                 /\ UNCHANGED <<sc_markets, sc_quoted>>
    /\ UNCHANGED <<sc_ticks, sc_cancelled, sc_markets_tbl, sc_scores_tbl, sc_recs_tbl, sc_result, offScoring>>

\* generate_recommendations_batch: a Recommendation for every market that
\* has a score in the map and a quote
Recommended == {m \in sc_markets : m \in sc_computed /\ m \in sc_quoted}

\* upsert_scores_batch returning with its error dropped and the cycle
\* going on
ScoringUpsertScoresUnchecked ==
    /\ sc_pc = "upsert_scores_batch"
    /\ \E ok \in BOOLEAN :
         /\ sc_calls' = Append(sc_calls, [fn |-> "upsert_scores_batch", ok |-> ok])
         /\ sc_scores_tbl' = IF ok THEN UpsertLatest(sc_scores_tbl, sc_computed, sc_ticks) ELSE sc_scores_tbl
         /\ IF Recommended = {}
            THEN CycleReturns
            ELSE /\ sc_pc' = "upsert_recs_batch"
                 /\ UNCHANGED <<sc_markets, sc_quoted, sc_computed>>
    /\ UNCHANGED <<sc_ticks, sc_cancelled, sc_markets_tbl, sc_recs_tbl, sc_result, offScoring>>

\* upsert_scores_batch returns: `?`, generate_recommendations_batch, then
\* the !is_empty() test before upsert_recs_batch
ScoringUpsertScores ==
    /\ sc_pc = "upsert_scores_batch"
    /\ \E ok \in BOOLEAN :
         /\ sc_calls' = Append(sc_calls, [fn |-> "upsert_scores_batch", ok |-> ok])
         /\ sc_scores_tbl' = IF ok THEN UpsertLatest(sc_scores_tbl, sc_computed, sc_ticks) ELSE sc_scores_tbl
         /\ IF ~ok \/ Recommended = {}
            THEN CycleReturns
            ELSE /\ sc_pc' = "upsert_recs_batch"
                 /\ UNCHANGED <<sc_markets, sc_quoted, sc_computed>>
    /\ UNCHANGED <<sc_ticks, sc_cancelled, sc_markets_tbl, sc_recs_tbl, sc_result, offScoring>>

\* an upsert_recs_batch whose failure also undoes the cycle's score rows,
\* as if both writes were one transaction
ScoringUpsertRecsUndoingScores ==
    /\ sc_pc = "upsert_recs_batch"
    /\ \E ok \in BOOLEAN :
         /\ sc_calls' = Append(sc_calls, [fn |-> "upsert_recs_batch", ok |-> ok])
         /\ sc_recs_tbl' = IF ok THEN UpsertLatest(sc_recs_tbl, Recommended, sc_ticks) ELSE sc_recs_tbl
         /\ sc_scores_tbl' = IF ok THEN sc_scores_tbl ELSE UpsertLatest(sc_scores_tbl, sc_computed, NoRow)
         /\ CycleReturns
    /\ UNCHANGED <<sc_ticks, sc_cancelled, sc_markets_tbl, sc_result, offScoring>>

\* upsert_recs_batch returns: `?`, Ok(())
ScoringUpsertRecs ==
    /\ sc_pc = "upsert_recs_batch"
    /\ \E ok \in BOOLEAN :
         /\ sc_calls' = Append(sc_calls, [fn |-> "upsert_recs_batch", ok |-> ok])
         /\ sc_recs_tbl' = IF ok THEN UpsertLatest(sc_recs_tbl, Recommended, sc_ticks) ELSE sc_recs_tbl
         /\ CycleReturns
    /\ UNCHANGED <<sc_ticks, sc_cancelled, sc_markets_tbl, sc_scores_tbl, sc_result, offScoring>>

\* the scoring task not started
ScoringIdle ==
    /\ sc_pc = "idle"
    /\ sc_ticks = 0
    /\ sc_cancelled = FALSE
    /\ sc_markets_tbl = {}
    /\ sc_markets = {}
    /\ sc_quoted = {}
    /\ sc_computed = {}
    /\ sc_scores_tbl = [m \in MarketIds |-> NoRow]
    /\ sc_recs_tbl = [m \in MarketIds |-> NoRow]
    /\ sc_calls = <<>>
    /\ sc_result = None

\* ---------------------------------------------------------------------
\* The markets queue and its writer with the contents of the markets
\* (crates/ingest/src/orchestrator.rs, crates/storage/src/markets.rs).  A
\* market is [market_id, v]: v stands for the columns the upsert sets
\* (title, slug, category, status, the times, url) and is the number of the
\* discovery that produced them.  venue, which the upsert does not update,
\* is "polymarket" for every market the client builds (client.rs:142).

\* an upsert whose conflict clause keeps the stored row: DO NOTHING
RECURSIVE UpsertMarketRowsKeepingFirst(_, _)
UpsertMarketRowsKeepingFirst(tbl, rows) ==
    IF rows = <<>> THEN tbl
    ELSE UpsertMarketRowsKeepingFirst(
            IF tbl[Head(rows).market_id] = NoRow
            THEN [tbl EXCEPT ![Head(rows).market_id] = Head(rows).v]
            ELSE tbl,
            Tail(rows))

\* markets::upsert_markets_batch(pool, markets), when its transaction
\* commits: INSERT .. ON CONFLICT (market_id) DO UPDATE SET .. = EXCLUDED..
\* for each market in turn
RECURSIVE UpsertMarketRows(_, _)
UpsertMarketRows(tbl, rows) ==
    IF rows = <<>> THEN tbl
    ELSE UpsertMarketRows([tbl EXCEPT ![Head(rows).market_id] = Head(rows).v],
                          Tail(rows))

\* flush_markets on a non-empty batch b
FlushMarketRows(b, ok) ==
    /\ mr_tbl' = IF ok THEN UpsertMarketRows(mr_tbl, b) ELSE mr_tbl
    /\ mr_log' = Append(mr_log, [rows |-> b, ok |-> ok])
    /\ mr_batch' = <<>>

\* CancellationToken::cancel
MrCancel ==
    /\ ~mr_cancelled
    /\ mr_w_pc # "idle"
    /\ mr_cancelled' = TRUE
    /\ UNCHANGED <<mr_feed, mr_sent, mr_q, mr_rx_open, mr_batch, mr_w_pc, mr_tbl, mr_log, offMarketRows>>

\* discovery_task: market_tx.send(market).await for the next market of
\* the venue's pages; on a closed channel the task returns
MrSend ==
    /\ mr_w_pc # "idle"
    /\ mr_sent < Len(mr_feed)
    /\ IF ~mr_rx_open
       THEN /\ mr_sent' = Len(mr_feed)
            /\ UNCHANGED mr_q
       ELSE /\ ChanHasRoom(mr_q)
            /\ mr_q' = Append(mr_q, [market_id |-> mr_feed[mr_sent + 1], v |-> mr_sent + 1])
            /\ mr_sent' = mr_sent + 1
    /\ UNCHANGED <<mr_feed, mr_cancelled, mr_rx_open, mr_batch, mr_w_pc, mr_tbl, mr_log, offMarketRows>>

\* market_persistence_task, select!: Some(market) = market_rx.recv()
MrRecv ==
    /\ mr_w_pc = "select"
    /\ mr_q # <<>>
    /\ mr_q' = Tail(mr_q)
    /\ LET pushed == Pushed(mr_batch, Head(mr_q)) IN
       IF Len(pushed) >= BatchSize
       THEN \E ok \in BOOLEAN : FlushMarketRows(pushed, ok)
       ELSE /\ mr_batch' = pushed
            /\ UNCHANGED <<mr_tbl, mr_log>>
    /\ UNCHANGED <<mr_feed, mr_sent, mr_cancelled, mr_rx_open, mr_w_pc, offMarketRows>>

\* market_persistence_task, select!: cancellation.cancelled()
MrWriterCancelled ==
    /\ mr_w_pc = "select"
    /\ mr_cancelled
    /\ IF FinalFlushNeeded(mr_batch)
       THEN \E ok \in BOOLEAN : FlushMarketRows(mr_batch, ok)
       ELSE UNCHANGED <<mr_tbl, mr_log, mr_batch>>
    /\ mr_w_pc' = "done"
    /\ mr_rx_open' = FALSE
    /\ mr_q' = <<>>
    /\ UNCHANGED <<mr_feed, mr_sent, mr_cancelled, offMarketRows>>

\* the tasks not started
MarketRowsIdle ==
    /\ mr_feed = <<>>
    /\ mr_sent = 0
    /\ mr_cancelled = FALSE
    /\ mr_q = <<>>
    /\ mr_rx_open = TRUE
    /\ mr_batch = <<>>
    /\ mr_w_pc = "idle"
    /\ mr_tbl = [m \in MarketIds |-> NoRow]
    /\ mr_log = <<>>

\* ---------------------------------------------------------------------
\* The batch functions of the engine (crates/scoring/src/engine.rs) as
\* run_scoring_cycle calls them: compute_scores_batch on the markets, the
\* quotes map and the rules map, the scores map collected from its
\* result, generate_recommendations_batch on that.  A HashMap is a
\* function from market_id to an Option; an element of a result is
\* [market_id, score] or [market_id, rec].

\* a batch that gives up at the first market it cannot score
RECURSIVE compute_scores_batch_until_error(_, _, _, _, _)
compute_scores_batch_until_error(config, markets, quotes, rules, now) ==
    IF markets = <<>> THEN <<>>
    ELSE LET market == Head(markets)
             quote == quotes[market.market_id]
             r == compute_score(config, market, quote.v,
                                rules[market.market_id], now)
         IN  IF ~quote.some THEN <<>>
             ELSE IF r.ok
             THEN <<[market_id |-> market.market_id, score |-> r.v]>>
                  \o compute_scores_batch_until_error(config, Tail(markets),
                                                      quotes, rules, now)
             ELSE <<>>

\* markets.iter().filter_map(|market| { quotes.get(..)?; rules.get(..);
\* match self.compute_score(..) { Ok(score) => Some(score), Err(e) => None }
\* }).collect()
RECURSIVE compute_scores_batch(_, _, _, _, _)
compute_scores_batch(config, markets, quotes, rules, now) ==
    IF markets = <<>> THEN <<>>
    ELSE LET market == Head(markets)
             quote == quotes[market.market_id]
             r == compute_score(config, market, quote.v,
                                rules[market.market_id], now)
             rest == compute_scores_batch(config, Tail(markets), quotes,
                                          rules, now)
         IN  IF ~quote.some THEN rest
             ELSE IF r.ok
             THEN <<[market_id |-> market.market_id, score |-> r.v]>> \o rest
             ELSE rest

\* computed_scores.into_iter().map(|s| (s.market_id.clone(), s)).collect():
\* a later Score of a market_id replaces an earlier one
RECURSIVE ScoresMap(_)
ScoresMap(scores) ==
    IF scores = <<>> THEN [m \in MarketIds |-> None]
    ELSE LET s == scores[Len(scores)] IN
         [ScoresMap(SubSeq(scores, 1, Len(scores) - 1))
              EXCEPT ![s.market_id] = Some(s.score)]

\* a batch that recommends only markets that have a rule
RECURSIVE generate_recommendations_batch_ruled(_, _, _, _, _)
generate_recommendations_batch_ruled(config, markets, scores, quotes, rules) ==
    IF markets = <<>> THEN <<>>
    ELSE LET market == Head(markets)
             score == scores[market.market_id]
             quote == quotes[market.market_id]
             rule == rules[market.market_id]
             rest == generate_recommendations_batch_ruled(
                         config, Tail(markets), scores, quotes, rules)
         IN  IF ~score.some \/ ~quote.some \/ ~rule.some THEN rest
             ELSE <<[market_id |-> market.market_id,
                     rec |-> generate_recommendation(config, market, score.v,
                                                     quote.v, rule)]>>
                  \o rest

\* markets.iter().filter_map(|market| { scores.get(..)?; quotes.get(..)?;
\* rules.get(..); Some(self.generate_recommendation(..)) }).collect()
RECURSIVE generate_recommendations_batch(_, _, _, _, _)
generate_recommendations_batch(config, markets, scores, quotes, rules) ==
    IF markets = <<>> THEN <<>>
    ELSE LET market == Head(markets)
             score == scores[market.market_id]
             quote == quotes[market.market_id]
             rule == rules[market.market_id]
             rest == generate_recommendations_batch(
                         config, Tail(markets), scores, quotes, rules)
         IN  IF ~score.some \/ ~quote.some THEN rest
             ELSE <<[market_id |-> market.market_id,
                     rec |-> generate_recommendation(config, market, score.v,
                                                     quote.v, rule)]>>
                  \o rest

\* run_scoring_cycle: compute_scores_batch and the is_empty() return
ComputeScoresBatch ==
    /\ eb_pc = "compute"
    /\ eb_scores' = Some(compute_scores_batch(DefaultScoringConfig, eb_markets,
                                              eb_quotes, eb_rules, eb_now))
    /\ eb_pc' = IF eb_scores'.v = <<>> THEN "done" ELSE "recommend"
    /\ UNCHANGED <<eb_markets, eb_quotes, eb_rules, eb_now, eb_recs, offEngineBatch>>

\* run_scoring_cycle: scores_map and generate_recommendations_batch
GenerateRecommendationsBatch ==
    /\ eb_pc = "recommend"
    /\ eb_recs' = Some(generate_recommendations_batch(
                           DefaultScoringConfig, eb_markets,
                           ScoresMap(eb_scores.v), eb_quotes, eb_rules))
    /\ eb_pc' = "done"
    /\ UNCHANGED <<eb_markets, eb_quotes, eb_rules, eb_now, eb_scores, offEngineBatch>>

\* no batch call in progress
EngineBatchIdle ==
    /\ eb_markets = <<>>
    /\ eb_quotes = [m \in MarketIds |-> None]
    /\ eb_rules = [m \in MarketIds |-> None]
    /\ eb_now = 0
    /\ eb_pc = "idle"
    /\ eb_scores = None
    /\ eb_recs = None

\* ---------------------------------------------------------------------
\* specifications

\* the state after run() has spawned its six tasks, but for the workload
\* and the markets table
InitIngest ==
    /\ cancelled = FALSE
    /\ run_pc = "waiting"
    /\ join_idx = 1
    /\ d_pc = "select" /\ d_offset = 0 /\ d_page = <<>> /\ d_last = <<>>
    /\ market_q = <<>> /\ market_rx_open = TRUE
    /\ w_pc = "select" /\ batch = <<>>
    /\ q_pc = "select" /\ q_ids = <<>> /\ q_quotes = <<>> /\ q_clock = 0
    /\ quote_q = <<>> /\ quote_rx_open = TRUE
    /\ qwriter_pc = "select"
    /\ r_pc = "select" /\ r_markets = <<>>
    /\ r_rule = [market_id |-> 1, rule_hash |-> 1]
    /\ r_result = "none" /\ r_differs = FALSE
    /\ rule_q = <<>> /\ rule_rx_open = TRUE
    /\ rwriter_pc = "select"
    /\ rules_latest = [m \in MarketIds |-> NoRow]
    /\ quotes_latest = [m \in MarketIds |-> NoRow]
    /\ quotes_5m = [k \in MarketIds \X {BucketTo5m(t) : t \in 0..(MaxCycles + 2)}
                       |-> NoRow]
    /\ market_produced = <<>> /\ market_sent = <<>>
    /\ market_recv = 0 /\ market_log = <<>>
    /\ quote_sent = <<>> /\ quote_log = <<>>
    /\ rule_sent = 0 /\ rule_upserts = 0 /\ rule_last = <<>>
    /\ at_cancel = [market |-> 0, quote |-> 0, rule |-> 0, batch |-> <<>>,
                    blocked |-> {}]

InitTasks == InitIngest /\ RetryIdle /\ EngineIdle /\ BucketIdle /\ Quotes5mIdle /\ ClientIdle /\ ApiIdle /\ BatchIdle /\ ScoringIdle /\ MarketRowsIdle /\ EngineBatchIdle

MarketNext ==
    \/ DiscoveryTick
    \/ DiscoveryCancelled
    \/ DiscoverMarkets
    \/ DiscoverySend
    \/ MarketRecv
    \/ MarketWriterCancelled

QuoteNext ==
    \/ QuoteTick
    \/ QuoteCancelled
    \/ QuoteGetQuotes
    \/ QuoteSend
    \/ QuoteRecv
    \/ QuoteWriterCancelled

RuleNext ==
    \/ RuleTick
    \/ RuleCancelled
    \/ RuleGetRules
    \/ RuleCheck
    \/ RuleSend
    \/ RuleRecv
    \/ RuleWriterCancelled

Producers == {"discovery", "quotes", "rules"}

\* ticks the active producer's interval delivers when the whole orchestrator
\* is checked
SysCycles == [discovery |-> 1, quotes |-> 2, rules |-> 1]

\* the workload: which producer's interval delivers ticks, and how many.
\* Discovery starts on an empty database, quote polling and rule extraction
\* on one that holds the venue's markets.
Workload(active, cycles) ==
    /\ budget = [p \in Producers |-> IF p = active THEN cycles ELSE 0]
    /\ markets_tbl = IF active = "discovery" THEN {} ELSE MarketIds

\* The orchestrator after run() has spawned its six tasks.  The three
\* intervals have cadences far apart (60 s, 1800 s, 3600 s): in the window
\* modelled one producer's interval delivers ticks and the other two
\* deliver none.
Init ==
    /\ InitTasks
    /\ \E active \in Producers : Workload(active, SysCycles[active])

Next ==
    \/ Cancel
    \/ MarketNext
    \/ QuoteNext
    \/ RuleNext
    \/ RunCancelled
    \/ RunJoin

Spec == Init /\ [][Next]_vars

\* a step of one of the six spawned tasks or of run() itself
TaskStep == MarketNext \/ QuoteNext \/ RuleNext \/ RunCancelled \/ RunJoin

\* The orchestrator on a runtime that keeps polling while some task can
\* make progress, with every venue and storage call returning: a step of
\* some task is taken whenever one stays possible.
\* ticks the active producer's interval delivers before and after the
\* cancellation when termination is checked
LiveCycles == 1

InitLive == InitTasks /\ \E active \in Producers : Workload(active, LiveCycles)

SpecLive == InitLive /\ [][Next]_vars /\ WF_vars(TaskStep)

\* The markets pipeline alone (discovery_task, market_persistence_task and
\* the cancellation), over MaxCycles discovery cycles.
InitMarkets == InitTasks /\ Workload("discovery", MaxCycles)

NextMarkets == Cancel \/ MarketNext

SpecMarkets == InitMarkets /\ [][NextMarkets]_vars

\* The quotes pipeline alone, over MaxCycles polls.
InitQuotes == InitTasks /\ Workload("quotes", MaxCycles)

NextQuotes == Cancel \/ QuoteNext

SpecQuotes == InitQuotes /\ [][NextQuotes]_vars

\* The rules pipeline alone, over MaxCycles extraction cycles.
InitRules == InitTasks /\ Workload("rules", MaxCycles)

NextRules == Cancel \/ RuleNext

SpecRules == InitRules /\ [][NextRules]_vars

\* One retry_with_backoff call, for every configuration and every sequence
\* of outcomes of operation(); the orchestrator is not running.
InitRetry ==
    /\ InitIngest
    /\ budget = [p \in Producers |-> 0]
    /\ markets_tbl = {}
    /\ rt_config \in RetryConfigs
    /\ rt_pc = "call"
    /\ rt_attempt = 0
    /\ rt_delay_ms = rt_config.initial_delay_ms
    /\ rt_result = <<>> /\ rt_calls = <<>> /\ rt_sleeps = <<>>
    /\ EngineIdle /\ BucketIdle /\ Quotes5mIdle /\ ClientIdle /\ ApiIdle /\ BatchIdle /\ ScoringIdle /\ MarketRowsIdle /\ EngineBatchIdle

NextRetry == RetryCall \/ RetrySleep

SpecRetry == InitRetry /\ [][NextRetry]_vars

\* the ingest orchestrator not started
IngestIdle ==
    /\ InitIngest
    /\ budget = [p \in Producers |-> 0]
    /\ markets_tbl = {}

\* the configurations tried: the default, a zero quote_stale_max_sec, a
\* zero spread_target, other base position sizes and heavier weights
ScoringConfigs ==
    {[DefaultScoringConfig EXCEPT
          !.bounds.quote_stale_max_sec = stale_max,
          !.bounds.spread_target = target,
          !.sizing.base_position_pct = base,
          !.weights = w] :
       stale_max \in {180, 0},
       target \in {R(2, 100), Zero},
       base \in {R(10, 100), Zero, R(5, 1), R(-1, 1)},
       w \in {DefaultScoringConfig.weights,
              [w1 |-> R(2, 1), w2 |-> One, w3 |-> One, w4 |-> R(3, 1),
               w5 |-> R(3, 1)]}}

\* close_time - now, in milliseconds, of the markets tried: around both
\* eligibility bounds, one day, twenty days, just past
CloseOffsets ==
    {-500, 3599000, 3599999, 3600000, 86400000, 1209600000, 1209600999,
     1209601000, 1728000000}

\* <<no_bid, no_ask>> of the quotes tried
QuotePrices ==
    {<<None, None>>, <<Some(R(92, 100)), None>>, <<None, Some(R(94, 100))>>,
     <<Some(R(92, 100)), Some(R(94, 100))>>,
     <<Some(R(95, 100)), Some(R(95, 100))>>,
     <<Some(R(93, 100)), Some(R(94, 100))>>}

\* now - as_of, in milliseconds, of the quotes tried: multiples of 90 s
\* from a quote stamped 90 s ahead of now, a quote half a second old and
\* one stamped half a second ahead of now
QuoteAges == {90000 * k : k \in (-1)..MaxStaleSteps} \cup {500, -500}

\* One compute_score call and, on a Score, the generate_recommendation
\* call that follows it, for every input above.
InitEngine ==
    /\ IngestIdle /\ RetryIdle /\ BucketIdle /\ Quotes5mIdle /\ ClientIdle /\ ApiIdle /\ BatchIdle /\ ScoringIdle /\ MarketRowsIdle /\ EngineBatchIdle
    /\ eng_config \in ScoringConfigs
    /\ eng_now = 86400000
    /\ eng_market \in
           {[close_time |-> None]}
           \cup {[close_time |-> Some(eng_now + off)] : off \in CloseOffsets}
    /\ eng_quote \in
           {[as_of |-> eng_now - age, no_bid |-> p[1], no_ask |-> p[2]] :
              age \in QuoteAges, p \in QuotePrices}
    /\ eng_rule \in
           {None, Some([definition_risk_score |-> R(30, 100)]),
            Some([definition_risk_score |-> One])}
    /\ eng_pc = "compute"
    /\ eng_score = None /\ eng_rec = None

NextEngine == ComputeScore \/ GenerateRecommendation

SpecEngine == InitEngine /\ [][NextEngine]_vars

\* insert_quote_5m calls on an empty quotes_5m.
InitQuotes5m ==
    /\ IngestIdle /\ RetryIdle /\ EngineIdle /\ BucketIdle /\ ClientIdle /\ ApiIdle /\ BatchIdle /\ ScoringIdle /\ MarketRowsIdle /\ EngineBatchIdle
    /\ Quotes5mIdle

NextQuotes5m == InsertQuote5mCall

SpecQuotes5m == InitQuotes5m /\ [][NextQuotes5m]_vars

\* the prices of the levels tried
BookPrices == {R(40, 100), R(45, 100), R(60, 100), One}

\* the sides tried: up to MaxBookDepth levels, in any order
BookSides ==
    UNION {[1..n -> BookPrices] : n \in 0..MaxBookDepth}

\* One order book fetched and its Quote derived.
InitClient ==
    /\ IngestIdle /\ RetryIdle /\ EngineIdle /\ BucketIdle /\ Quotes5mIdle /\ ApiIdle /\ BatchIdle /\ ScoringIdle /\ MarketRowsIdle /\ EngineBatchIdle
    /\ cq_book \in [fetched : {TRUE}, bids : BookSides, asks : BookSides]
    /\ cq_quote = None

NextClient == DeriveQuote

SpecClient == InitClient /\ [][NextClient]_vars

\* the limit and offset parameters tried; both are usize, and a request
\* whose parameter does not parse never reaches the handler
LimitParams == {None} \cup {Some(n) : n \in {0, 1, 20, 99, 100, 101, 5000}}
OffsetParams == {None} \cup {Some(n) : n \in {0, 1, 40}}

\* One GET /v1/opportunities request under the default configuration.
InitApi ==
    /\ IngestIdle /\ RetryIdle /\ EngineIdle /\ BucketIdle /\ Quotes5mIdle /\ ClientIdle /\ BatchIdle /\ ScoringIdle /\ MarketRowsIdle /\ EngineBatchIdle
    /\ api_config = DefaultApiConfig
    /\ api_params \in [limit : LimitParams, offset : OffsetParams]
    /\ api_pc = "handle"
    /\ api_call = None /\ api_resp = None

NextApi == HandlerListRecs \/ HandlerCountRecs \/ HandlerRespond

SpecApi == InitApi /\ [][NextApi]_vars

\* the rows tried: two markets, two values
BatchRows == [market_id : {m \in MarketIds : m <= 2}, v : {1, 2}]

\* the batches tried: up to MaxBatchRows rows, repeated markets included
Batches == UNION {[1..n -> BatchRows] : n \in 0..MaxBatchRows}

\* One call of a batch write, on a table that is empty or holds an older
\* row for some of the markets.
InitBatch ==
    /\ IngestIdle /\ RetryIdle /\ EngineIdle /\ BucketIdle /\ Quotes5mIdle /\ ClientIdle /\ ApiIdle /\ ScoringIdle /\ MarketRowsIdle /\ EngineBatchIdle
    /\ bt_fn \in BatchFns
    /\ bt_rows \in Batches
    /\ bt_tbl \in {[m \in MarketIds |-> IF m \in held THEN 3 ELSE NoRow] :
                      held \in SUBSET {m \in MarketIds : m <= 2}}
    /\ bt_tx = None
    /\ bt_i = 0
    /\ bt_pc = "call"
    /\ bt_result = None
    /\ bt_before = bt_tbl

NextBatch == BatchBegin \/ BatchExecute \/ BatchCommit

SpecBatch == InitBatch /\ [][NextBatch]_vars

\* The scoring task started on a database where ingest has written some
\* markets and no cycle has run.
InitScoring ==
    /\ IngestIdle /\ RetryIdle /\ EngineIdle /\ BucketIdle /\ Quotes5mIdle /\ ClientIdle /\ ApiIdle /\ BatchIdle /\ MarketRowsIdle /\ EngineBatchIdle
    /\ sc_pc = "select"
    /\ sc_ticks = 0
    /\ sc_cancelled = FALSE
    /\ sc_markets_tbl \in SUBSET ScoringMarkets
    /\ sc_markets = {}
    /\ sc_quoted = {}
    /\ sc_computed = {}
    /\ sc_scores_tbl = [m \in MarketIds |-> NoRow]
    /\ sc_recs_tbl = [m \in MarketIds |-> NoRow]
    /\ sc_calls = <<>>
    /\ sc_result = None

NextScoring ==
    \/ MarketsUpserted
    \/ ScoringCancel
    \/ ScoringCancelled
    \/ ScoringTick
    \/ ScoringListMarkets
    \/ ScoringGetQuotes
    \/ ScoringGetRules
    \/ ScoringUpsertScores
    \/ ScoringUpsertRecs

SpecScoring == InitScoring /\ [][NextScoring]_vars

\* a storage call of the cycle in flight returns
CycleStep ==
    \/ ScoringListMarkets
    \/ ScoringGetQuotes
    \/ ScoringGetRules
    \/ ScoringUpsertScores
    \/ ScoringUpsertRecs

\* The scoring task where every storage call returns.
SpecScoringLive == SpecScoring /\ WF_vars(CycleStep)

\* The discoveries of a run list up to MaxFeed markets, the same market
\* more than once among them; the table is empty.
InitMarketRows ==
    /\ IngestIdle /\ RetryIdle /\ EngineIdle /\ BucketIdle /\ Quotes5mIdle /\ ClientIdle /\ ApiIdle /\ BatchIdle /\ ScoringIdle /\ EngineBatchIdle
    /\ mr_feed \in UNION {[1..n -> {m \in MarketIds : m <= 2}] : n \in 1..MaxFeed}
    /\ mr_sent = 0
    /\ mr_cancelled = FALSE
    /\ mr_q = <<>>
    /\ mr_rx_open = TRUE
    /\ mr_batch = <<>>
    /\ mr_w_pc = "select"
    /\ mr_tbl = [m \in MarketIds |-> NoRow]
    /\ mr_log = <<>>

NextMarketRows == MrCancel \/ MrSend \/ MrRecv \/ MrWriterCancelled

SpecMarketRows == InitMarketRows /\ [][NextMarketRows]_vars

\* the market lists tried: every order of every set of up to three
\* markets, as list_active_markets returns no market_id twice
RECURSIVE DistinctSeqs(_)
DistinctSeqs(S) ==
    {<<>>} \cup UNION {{<<x>> \o t : t \in DistinctSeqs(S \ {x})} : x \in S}

\* One scoring cycle's batch calls: each market closes in a day or in
\* less than an hour, and has no quote, a quote without NO prices or a
\* priced quote 90 s old; market 1 may have a rule.
InitEngineBatch ==
    /\ IngestIdle /\ RetryIdle /\ EngineIdle /\ BucketIdle /\ Quotes5mIdle /\ ClientIdle /\ ApiIdle /\ BatchIdle /\ ScoringIdle /\ MarketRowsIdle
    /\ eb_now = 86400000
    /\ \E ids \in DistinctSeqs({m \in MarketIds : m <= 3}) :
         eb_markets \in [1..Len(ids) -> [market_id : MarketIds, close_time : {Some(eb_now + 3599000), Some(eb_now + 86400000)}]]
         /\ \A i \in 1..Len(ids) : eb_markets[i].market_id = ids[i]
    /\ eb_quotes \in [MarketIds -> {None, Some([as_of |-> eb_now - 90000, no_bid |-> None, no_ask |-> None]), Some([as_of |-> eb_now - 90000, no_bid |-> Some(R(92, 100)), no_ask |-> Some(R(94, 100))])}]
    /\ \A m \in MarketIds : m > 3 => eb_quotes[m] = None
    /\ eb_rules \in {[m \in MarketIds |-> None], [m \in MarketIds |-> IF m = 1 THEN Some([definition_risk_score |-> R(30, 100)]) ELSE None]}
    /\ eb_pc = "compute"
    /\ eb_scores = None
    /\ eb_recs = None

NextEngineBatch == ComputeScoresBatch \/ GenerateRecommendationsBatch

SpecEngineBatch == InitEngineBatch /\ [][NextEngineBatch]_vars

\* the timestamps tried: every minute from six before the epoch to
\* MaxMinute after it, at several seconds of the minute, with and without
\* a sub-second part, and inside a leap second
BucketInputs ==
    {[secs |-> 60 * m + sec, nanos |-> nano] :
        m \in (-6)..MaxMinute, sec \in {0, 1, 42, 59},
        nano \in {0, 123456789}}
    \cup {[secs |-> 60 * m + 59, nanos |-> 1500000000] :
              m \in (-6)..MaxMinute}

\* One bucket_to_5m call on a timestamp, and one on its result.
InitBucket ==
    /\ IngestIdle /\ RetryIdle /\ EngineIdle /\ Quotes5mIdle /\ ClientIdle /\ ApiIdle /\ BatchIdle /\ ScoringIdle /\ MarketRowsIdle /\ EngineBatchIdle
    /\ bk_dt \in BucketInputs
    /\ bk_pc = "bucket"
    /\ bk_out = None /\ bk_again = None

NextBucket == Bucket \/ BucketAgain

SpecBucket == InitBucket /\ [][NextBucket]_vars
\* ---------------------------------------------------------------------
\* properties

IsPrefix(s, t) == Len(s) <= Len(t) /\ s = Take(t, Len(s))

\* the markets of the upsert_markets_batch calls of a log, in call order
RECURSIVE FlatBatches(_)
FlatBatches(log) ==
    IF log = <<>> THEN <<>> ELSE log[1].batch \o FlatBatches(Tail(log))

\* every market handed to upsert_markets_batch so far
Logged == FlatBatches(market_log)

\* every market a successful upsert_markets_batch call has written
PersistedMarkets == FlatBatches(SelectSeq(market_log, LAMBDA e : e.ok))

DiscoveryBlocked ==
    d_pc = "send" /\ market_rx_open /\ Len(market_q) >= MaxChannelSize

QuoteBlocked ==
    q_pc = "send" /\ quote_rx_open /\ Len(quote_q) >= MaxChannelSize

RuleBlocked ==
    r_pc = "send" /\ rule_rx_open /\ Len(rule_q) >= MaxChannelSize

C2_Backpressure ==
    /\ [](/\ Len(market_q) <= MaxChannelSize
          /\ Len(quote_q) <= MaxChannelSize
          /\ Len(rule_q) <= MaxChannelSize)
    /\ [][/\ DiscoveryBlocked =>
               /\ UNCHANGED <<discVars, market_produced, market_sent>>
               /\ ~DiscoveryBlocked' =>
                      (market_q' = Tail(market_q) \/ ~market_rx_open')
          /\ QuoteBlocked =>
               /\ UNCHANGED <<qpollVars, quote_sent>>
               /\ ~QuoteBlocked' =>
                      (quote_q' = Tail(quote_q) \/ ~quote_rx_open')
          /\ RuleBlocked =>
               /\ UNCHANGED <<rextVars, rule_sent>>
               /\ ~RuleBlocked' =>
                      (rule_q' = Tail(rule_q) \/ ~rule_rx_open')]_vars

\* the rule extraction task waits on a full rules queue with a changed rule
C2_Witness == RuleBlocked /\ ~cancelled

\* C3 as stated: a consumer that has exited has received every message its
\* channel had accepted when cancel() was called.
C3_ConsumersDrain ==
    /\ w_pc = "done" => market_recv >= at_cancel.market
    /\ qwriter_pc = "done" => Len(quote_log) >= at_cancel.quote
    /\ rwriter_pc = "done" => rule_upserts >= at_cancel.rule

C5_ProducersQuietAfterCancel ==
    [][cancelled =>
          /\ market_sent' = market_sent
          /\ quote_sent' = quote_sent
          /\ rule_sent' = rule_sent
          /\ budget' = budget]_vars

\* C6: run() has returned only if cancellation was asserted and each of the
\* six tasks has terminated.
C6_RunReturnsAfterAll ==
    run_pc = "returned" =>
        /\ cancelled
        /\ d_pc = "done" /\ q_pc = "done" /\ r_pc = "done"
        /\ w_pc = "done" /\ qwriter_pc = "done" /\ rwriter_pc = "done"

\* run() has returned
C6_Witness == run_pc = "returned" /\ join_idx = Len(Handles)

\* the hash rules_latest holds for the market of the fetched rule
StoredHash == rules_latest[r_rule.market_id]

\* a step in which the extraction task evaluates has_rule_changed
CheckStep == r_pc = "check" /\ r_pc' # "check"

\* the markets left to the cycle once the current one is done with, and
\* where the task goes then
CycleGoesOn ==
    /\ r_markets' = Tail(r_markets)
    /\ r_pc' = IF Tail(r_markets) = <<>> THEN "select" ELSE "get_rules"

\* C7 as stated: whenever has_rule_changed is evaluated for a fetched rule
\* whose hash equals the stored one, it returns false and the rule is not
\* going to be sent.
C7_SameHashNeverEnqueued ==
    [][(CheckStep /\ StoredHash = r_rule.rule_hash)
          => (r_result' = "false" /\ r_pc' # "send")]_vars

\* C7 amended: whenever has_rule_changed is evaluated for a fetched rule
\* whose hash equals the stored one and its query succeeds, it returns
\* false, nothing is enqueued or upserted in the step and the task goes on
\* with the next market; a rule is enqueued only after a check that did not
\* return false, and upsert_rule is called only on a rule taken from the
\* queue.
C7_SameHashSkippedUnlessQueryFails ==
    [][/\ (CheckStep /\ StoredHash = r_rule.rule_hash /\ r_result' # "err")
            => /\ r_result' = "false"
               /\ CycleGoesOn
               /\ UNCHANGED <<rule_q, rule_sent, rule_upserts, rules_latest>>
       /\ rule_sent' # rule_sent
            => /\ r_pc = "send" /\ r_result # "false"
               /\ rule_q' = Append(rule_q, [rule |-> r_rule,
                                            differs |-> r_differs])
       /\ rule_upserts' # rule_upserts
            => /\ rule_q # <<>>
               /\ rule_last'[1].msg = Head(rule_q)
               /\ rule_q' = Tail(rule_q)]_vars

\* a stored hash was fetched again and skipped by a successful check
C7_Witness ==
    /\ r_result = "false"
    /\ r_pc \in {"get_rules", "select"}
    /\ StoredHash = r_rule.rule_hash
    /\ rule_upserts > 0

\* C8 as stated: every upsert_rule call found another hash, or no row,
\* stored for the market it wrote.
C8_UpsertAlwaysDiffers ==
    rule_last # <<>> =>
        rule_last[1].stored # rule_last[1].msg.rule.rule_hash

\* C8 amended: every rule in the queue, and every rule upsert_rule was
\* called on, comes from a has_rule_changed check that failed or that ran
\* while rules_latest held another hash or no row for the market.
C8_UpsertWasChangedWhenChecked ==
    /\ \A i \in 1..Len(rule_q) : rule_q[i].differs
    /\ rule_last # <<>> => rule_last[1].msg.differs

\* upsert_rule succeeded on a rule whose hash was the stored one
C8_Witness ==
    /\ rule_last # <<>>
    /\ rule_last[1].ok
    /\ rule_last[1].msg.differs
    /\ rule_last[1].stored = rule_last[1].msg.rule.rule_hash

\* C9: a has_rule_changed that fails sends the task to the enqueue of the
\* fetched rule, with the cycle's remaining markets untouched; the enqueue
\* puts that rule on the queue and the task goes on with the next market
\* of the cycle, or back to its select after the last one.
C9_CheckErrorEnqueues ==
    [][/\ (CheckStep /\ r_result' = "err")
            => /\ r_pc' = "send"
               /\ UNCHANGED <<r_rule, r_markets>>
       /\ (r_pc = "send" /\ r_result = "err" /\ rule_rx_open
             /\ r_pc' # "send")
            => /\ rule_q' = Append(rule_q, [rule |-> r_rule,
                                            differs |-> r_differs])
               /\ rule_sent' = rule_sent + 1
               /\ CycleGoesOn]_vars

\* in the first cycle the check of the first market failed, its rule was
\* enqueued and the task is at the second market
C9_Witness ==
    /\ r_result = "err"
    /\ r_pc = "get_rules"
    /\ budget.rules = MaxCycles - 1
    /\ Len(r_markets) = 1
    /\ rule_sent = 1

Max(a, b) == IF a >= b THEN a ELSE b

Last(s) == s[Len(s)]

\* C10 as stated, its bound: operation() is called at most max_attempts
\* times.
C10_AtMostMaxAttempts == Len(rt_calls) <= rt_config.max_attempts

\* C10 amended: operation() is called at most max(1, max_attempts) times
\* and never after a success; the function returns the outcome of its last
\* call, which is a success or the failure of call number
\* max(1, max_attempts); and it has not returned while the calls so far
\* failed and were fewer than max_attempts, whatever their errors.
C10_RetriesUpToMaxAttempts ==
    LET cap == Max(1, rt_config.max_attempts) IN
    /\ Len(rt_calls) = rt_attempt
    /\ Len(rt_calls) <= cap
    /\ \A i \in 1..(Len(rt_calls) - 1) : rt_calls[i] \in ErrorKinds
    /\ rt_pc = "returned" =>
           /\ rt_calls # <<>>
           /\ rt_result = <<Last(rt_calls)>>
           /\ Last(rt_calls) = "ok" \/ Len(rt_calls) = cap
    /\ rt_pc # "returned" =>
           /\ rt_result = <<>>
           /\ \A i \in 1..Len(rt_calls) : rt_calls[i] \in ErrorKinds
           /\ rt_calls # <<>> => Len(rt_calls) < rt_config.max_attempts

\* every allowed attempt failed, the first with a permanent error, and the
\* last error was returned
C10_Witness ==
    /\ rt_pc = "returned"
    /\ rt_config.max_attempts = MaxMaxAttempts
    /\ Len(rt_calls) = MaxMaxAttempts
    /\ rt_calls[1] = "permanent"
    /\ rt_result = <<"transient">>

\* C11 as stated: no sleep of retry_with_backoff is longer than
\* max_delay_ms * 1.15.
C11_SleepWithinCap ==
    \A i \in 1..Len(rt_sleeps) :
        100 * rt_sleeps[i] <= 115 * rt_config.max_delay_ms

\* compute_score has returned the error e
Failed(e) == eng_score.some /\ ~eng_score.v.ok /\ eng_score.v.e = e

\* compute_score has returned a Score
Scored == eng_score.some /\ eng_score.v.ok

\* close_time - now in whole seconds, for a market with a close_time
TRemaining == num_seconds(eng_market.close_time.v - eng_now)

\* the market passes the eligibility gate
GatePassed ==
    /\ eng_market.close_time.some
    /\ TRemaining >= eng_config.bounds.min_t_remaining_sec
    /\ TRemaining <= eng_config.bounds.max_t_remaining_sec

\* C12: compute_score returns InvalidMarket exactly when close_time is
\* absent or t_remaining_sec is below min_t_remaining_sec or above
\* max_t_remaining_sec; a market at either bound is not rejected.
C12_InvalidMarketIffOutside ==
    eng_score.some => (Failed("InvalidMarket") <=> ~GatePassed)

\* a market exactly max_t_remaining_sec from its close was scored
C12_Witness ==
    /\ Scored
    /\ TRemaining = eng_config.bounds.max_t_remaining_sec

\* the quote has both NO-side prices
HasNoPrices == eng_quote.no_bid.some /\ eng_quote.no_ask.some

\* C13: for a market that passes the gate compute_score returns
\* MissingQuote exactly when no_bid or no_ask is absent; a Score comes only
\* from a quote with both; and a market that fails the gate gets
\* InvalidMarket whatever its quote.
C13_MissingQuoteIffNoPrice ==
    eng_score.some =>
        /\ GatePassed => (Failed("MissingQuote") <=> ~HasNoPrices)
        /\ Scored => HasNoPrices
        /\ ~GatePassed => Failed("InvalidMarket")

\* an eligible market whose quote has a no_bid and no no_ask was refused
C13_Witness ==
    /\ Failed("MissingQuote")
    /\ GatePassed
    /\ eng_quote.no_bid.some /\ ~eng_quote.no_ask.some

\* 0 <= x <= 1
InUnit(x) == FLe(Zero, x) /\ FLe(x, One)

\* C14 as stated: every Score compute_score returns has an overall_score
\* in [0, 1].
C14_OverallScoreInUnit ==
    Scored => InUnit(eng_score.v.v.overall_score)

\* the inputs of the worked example: the default configuration, a market
\* closing one day from now, a fresh quote with no_bid 0.92 and no_ask 0.94
S1Inputs ==
    /\ eng_config = DefaultScoringConfig
    /\ eng_market.close_time = Some(eng_now + 86400000)
    /\ eng_quote = [as_of |-> eng_now, no_bid |-> Some(R(92, 100)),
                    no_ask |-> Some(R(94, 100))]

\* every field of the example's Score but overall_score
S1Fields ==
    /\ Scored
    /\ eng_score.v.v.t_remaining_sec = 86400
    /\ eng_score.v.v.staleness_penalty = Zero
    /\ eng_score.v.v.net_yield = R(90896, 100000)
    /\ eng_score.v.v.yield_velocity = R(90896, 100000)
    /\ eng_score.v.v.liquidity_score = Zero
    /\ eng_score.v.v.definition_risk_score = Zero

ScoreWithRule(rule) ==
    compute_score(eng_config, eng_market, eng_quote, rule, eng_now).v

C17_PositionSizeBounds ==
    (/\ eng_rec.some
     /\ InUnit(eng_score.v.v.definition_risk_score)
     /\ InUnit(eng_score.v.v.liquidity_score)) =>
        /\ FLe(R(1, 100), eng_rec.v.max_position_pct)
        /\ FLe(eng_rec.v.max_position_pct, R(10, 100))
        /\ eng_score.v.v.definition_risk_score = One =>
               eng_rec.v.max_position_pct = R(1, 100)

\* a market whose rule has definition_risk_score 1.0 was recommended at
\* 0.01 under a base_position_pct of 5
C17_Witness ==
    /\ eng_rec.some
    /\ eng_config.sizing.base_position_pct = R(5, 1)
    /\ eng_score.v.v.definition_risk_score = One
    /\ InUnit(eng_score.v.v.liquidity_score)
    /\ eng_rec.v.max_position_pct = R(1, 100)

\* the staleness values compared with the one of the Score
StalenessGrid == {45 * k : k \in (-2)..(2 * MaxStaleSteps + 2)}

\* C18: with a positive quote_stale_max_sec, calculate_staleness_penalty
\* is non-decreasing in staleness_sec, 0 at staleness 0 and below, 0.5 at
\* half of quote_stale_max_sec, 1 at quote_stale_max_sec and above.
C18_StalenessPenaltyRamp ==
    (Scored /\ eng_config.bounds.quote_stale_max_sec > 0) =>
        LET max == eng_config.bounds.quote_stale_max_sec
            s == eng_score.v.v.staleness_sec
            p == eng_score.v.v.staleness_penalty
        IN  /\ p = calculate_staleness_penalty(eng_config, s)
            /\ s <= 0 => p = Zero
            /\ 2 * s = max => p = R(1, 2)
            /\ s >= max => p = One
            /\ \A t \in StalenessGrid :
                   /\ t <= s =>
                        FLe(calculate_staleness_penalty(eng_config, t), p)
                   /\ t >= s =>
                        FLe(p, calculate_staleness_penalty(eng_config, t))

\* a quote half of quote_stale_max_sec old was scored with penalty 0.5
C18_Witness ==
    /\ Scored
    /\ eng_config.bounds.quote_stale_max_sec > 0
    /\ 2 * eng_score.v.v.staleness_sec = eng_config.bounds.quote_stale_max_sec
    /\ eng_score.v.v.staleness_penalty = R(1, 2)

C20_BucketFloorIdempotent ==
    /\ bk_out.some =>
          /\ bk_out.v.nanos = 0
          /\ bk_out.v.secs % 300 = 0
          /\ bk_out.v.secs <= bk_dt.secs
          /\ bk_dt.secs < bk_out.v.secs + 300
    /\ bk_again.some => bk_again.v = bk_out.v

\* 00:17:42.123456789 was bucketed to 00:15:00, twice
C20_Witness ==
    /\ bk_dt = [secs |-> 1062, nanos |-> 123456789]
    /\ bk_out = Some([secs |-> 900, nanos |-> 0])
    /\ bk_again = bk_out

\* d(k): the base delay before the k-th retry
RECURSIVE BaseDelay(_, _)
BaseDelay(config, k) ==
    IF k = 1 THEN config.initial_delay_ms
    ELSE LET doubled == 2 * BaseDelay(config, k - 1) IN
         IF doubled <= config.max_delay_ms THEN doubled
         ELSE config.max_delay_ms

\* a sleep follows every failed call of operation() but a last one, and
\* nothing else; delay_ms is the base delay of the next retry
SleepsFollowFailures ==
    /\ rt_delay_ms = BaseDelay(rt_config, Len(rt_sleeps) + 1)
    /\ rt_pc = "call" => Len(rt_sleeps) = Len(rt_calls)
    /\ rt_pc = "sleep" =>
           /\ Len(rt_sleeps) = Len(rt_calls) - 1
           /\ Last(rt_calls) \in ErrorKinds
           /\ Len(rt_calls) < rt_config.max_attempts
    /\ rt_pc = "returned" => Len(rt_sleeps) = Len(rt_calls) - 1

\* C29 as stated: the base delay is d(1) = initial_delay_ms, d(k+1) =
\* min(2 d(k), max_delay_ms); the k-th sleep is d(k) * f with f in
\* [0.85, 1.15] under jitter and d(k) without; a sleep happens only after
\* a failed attempt that is not the last.
C29_SleepIsDelayTimesJitter ==
    /\ SleepsFollowFailures
    /\ \A k \in 1..Len(rt_sleeps) :
           LET d == BaseDelay(rt_config, k) IN
           IF rt_config.jitter
           THEN /\ 85 * d <= 100 * rt_sleeps[k]
                /\ 100 * rt_sleeps[k] <= 115 * d
           ELSE rt_sleeps[k] = d

\* C29 amended: as stated, but under jitter the k-th sleep is d(k) * f
\* truncated to whole milliseconds, so it may be up to 1 ms below
\* 0.85 * d(k).
C29_SleepIsTruncatedJitter ==
    /\ SleepsFollowFailures
    /\ \A k \in 1..Len(rt_sleeps) :
           LET d == BaseDelay(rt_config, k) IN
           IF rt_config.jitter
           THEN /\ 85 * d < 100 * (rt_sleeps[k] + 1)
                /\ 100 * rt_sleeps[k] <= 115 * d
           ELSE rt_sleeps[k] = d

\* two jittered sleeps, the second on the capped delay, the first below
\* 0.85 of its base delay, then the final failure
C29_Witness ==
    /\ rt_pc = "returned"
    /\ rt_config.jitter
    /\ rt_config.initial_delay_ms = 10
    /\ rt_config.max_delay_ms = 10
    /\ Len(rt_sleeps) = 2
    /\ rt_sleeps[1] = 8
    /\ Last(rt_calls) \in ErrorKinds

\* C30: a discovery cycle requests offset 0 first and offset + L after
\* every non-empty page, whose markets it enqueues whole and in page
\* order; it ends at the first empty page or page error, which leaves the
\* task waiting for its next tick; the task ends only once cancelled.
C30_DiscoveryPaging ==
    /\ d_pc = "discover" =>
           \/ d_last = <<>> /\ d_offset = 0
           \/ /\ d_last # <<>>
              /\ d_last[1].result = "page"
              /\ d_offset = d_last[1].offset + MaxMarketsPerDiscovery
    /\ d_pc = "send" =>
           /\ d_last = <<[offset |-> d_offset, result |-> "page"]>>
           /\ d_page # <<>>
           /\ LET page == VenuePage(MaxMarketsPerDiscovery, d_offset) IN
              \E i \in 1..Len(page) : d_page = SubSeq(page, i, Len(page))
    /\ d_pc \in {"discover", "send"} =>
           market_produced = market_sent \o d_page
    /\ (d_pc = "select" /\ d_last # <<>>) =>
           /\ d_last[1].result \in {"empty", "err"}
           /\ d_page = <<>>
           /\ d_last[1].result = "empty" =>
                  VenuePage(MaxMarketsPerDiscovery, d_last[1].offset) = <<>>
    /\ d_pc = "done" => cancelled

\* a cycle that ended on a page error at offset L is followed by a cycle
\* that requests offset 0 again
C30_Witness ==
    /\ d_pc = "send"
    /\ d_offset = 0
    /\ d_last = <<[offset |-> 0, result |-> "page"]>>
    /\ Len(market_produced) = 2 * MaxMarketsPerDiscovery
    /\ Len(market_sent) = MaxMarketsPerDiscovery

\* C27: once a queue's receiver is dropped nothing more is enqueued on
\* it; a producer at its send is not blocked, its next step ends the task,
\* and a task that has ended stays ended.
C27_ClosedQueueEndsProducer ==
    /\ [](/\ (d_pc = "send" /\ ~market_rx_open) => ENABLED DiscoverySend
          /\ (q_pc = "send" /\ ~quote_rx_open) => ENABLED QuoteSend
          /\ (r_pc = "send" /\ ~rule_rx_open) => ENABLED RuleSend)
    /\ [][/\ ~market_rx_open =>
               /\ UNCHANGED <<market_q, market_sent>>
               /\ (d_pc = "send" /\ d_pc' # "send") => d_pc' = "done"
          /\ ~quote_rx_open =>
               /\ UNCHANGED <<quote_q, quote_sent>>
               /\ (q_pc = "send" /\ q_pc' # "send") => q_pc' = "done"
          /\ ~rule_rx_open =>
               /\ UNCHANGED <<rule_q, rule_sent>>
               /\ (r_pc = "send" /\ r_pc' # "send") => r_pc' = "done"
          /\ d_pc = "done" => d_pc' = "done"
          /\ q_pc = "done" => q_pc' = "done"
          /\ r_pc = "done" => r_pc' = "done"]_vars

\* the quote polling task ended on a send to the closed quotes queue, its
\* batch undelivered
C27_Witness ==
    /\ q_pc = "done"
    /\ ~quote_rx_open
    /\ q_quotes # <<>>
    /\ q_quotes \notin Range(quote_sent)

\* the batches the quote writer has handled, in order
QuotesHandled == [i \in 1..Len(quote_log) |-> quote_log[i].quotes]

\* C26: every message a writer received went to exactly one storage call
\* (or waits in the market batch), in order; a failed upsert_markets_batch,
\* upsert_quotes_latest_batch, insert_quote_5m or upsert_rule leaves its
\* table as it was, puts nothing back on the queue and empties the batch;
\* and the writer goes back to its select (after the flush of the
\* cancellation branch it returns).
C26_FailedWriteDropped ==
    /\ [](/\ Logged \o batch = Take(market_sent, market_recv)
          /\ QuotesHandled = Take(quote_sent, Len(quote_log))
          /\ rule_upserts <= rule_sent
          /\ rule_rx_open => rule_upserts + Len(rule_q) = rule_sent)
    /\ [][/\ (Len(market_log') > Len(market_log) /\ ~Last(market_log').ok) =>
               /\ market_log' = Append(market_log, Last(market_log'))
               /\ markets_tbl' = markets_tbl
               /\ batch' = <<>>
               /\ IF Last(market_log').final
                  THEN w_pc' = "done"
                  ELSE w_pc' = "select" /\ market_q' = Tail(market_q)
          /\ Len(quote_log') > Len(quote_log) =>
               LET call == Last(quote_log') IN
               /\ quote_log' = Append(quote_log, call)
               /\ quote_q' = Tail(quote_q)
               /\ qwriter_pc' = "select"
               /\ ~call.ok => quotes_latest' = quotes_latest
               /\ \A i \in 1..Len(call.quotes) :
                      LET key == <<call.quotes[i].market_id,
                                   BucketTo5m(call.quotes[i].as_of)>> IN
                      ~call.oks[i] => quotes_5m'[key] = quotes_5m[key]
          /\ (rule_upserts' # rule_upserts /\ ~rule_last'[1].ok) =>
               /\ rule_upserts' = rule_upserts + 1
               /\ rules_latest' = rules_latest
               /\ rule_q' = Tail(rule_q)
               /\ rwriter_pc' = "select"]_vars

\* the quote writer, not cancelled, wrote a batch after the batch whose
\* upsert_quotes_latest_batch and insert_quote_5m calls failed
C26_Witness ==
    /\ ~cancelled
    /\ qwriter_pc = "select"
    /\ Len(quote_log) = 2
    /\ quote_log[1].quotes # <<>> /\ quote_log[2].quotes # <<>>
    /\ ~quote_log[1].ok /\ ~quote_log[1].oks[1]
    /\ quote_log[2].ok /\ quote_log[2].oks[1]
    /\ quotes_latest[quote_log[2].quotes[1].market_id] =
           quote_log[2].quotes[1].as_of

\* the key of a quote in quotes_5m
Key5m(quote) == <<quote.market_id, BucketTo5m(quote.as_of)>>

\* the successful insert_quote_5m calls for a key, by position
OkCalls5m(key) ==
    {i \in 1..Len(q5_calls) : q5_calls[i].ok /\ Key5m(q5_calls[i].quote) = key}

\* C24: the row of a <<market_id, bucket_start>> is the quote of the first
\* insert_quote_5m call that succeeded for it, whatever calls followed, and
\* there is no row where none did; repeating any call that succeeded
\* leaves the table as it is.
C24_Quotes5mAppendOnce ==
    /\ \A key \in DOMAIN q5_tbl :
           IF OkCalls5m(key) = {} THEN q5_tbl[key] = NoRow
           ELSE LET first == CHOOSE i \in OkCalls5m(key) :
                                 \A j \in OkCalls5m(key) : i <= j
                IN  q5_tbl[key] = q5_calls[first].quote.as_of
    /\ \A i \in 1..Len(q5_calls) :
           q5_calls[i].ok =>
               InsertQuote5m(q5_tbl, q5_calls[i].quote) = q5_tbl

\* a second quote of market 1 was inserted for the bucket of the first
\* and the row is still the first
C24_Witness ==
    /\ Len(q5_calls) = 2
    /\ q5_calls[1] = [quote |-> [market_id |-> 1, as_of |-> 2], ok |-> TRUE]
    /\ q5_calls[2] = [quote |-> [market_id |-> 1, as_of |-> 3], ok |-> TRUE]
    /\ q5_tbl[<<1, 2>>] = 2

\* C21: in the Quote of an order book yes_bid and yes_ask are the prices
\* of the first bid and the first ask, absent for an empty side; no_bid is
\* 1 - yes_ask and no_ask is 1 - yes_bid, each present exactly when its
\* YES counterpart is; each spread is ask - bid and each mid
\* (bid + ask) / 2, present exactly when both endpoints are.
C21_QuoteOfBook ==
    cq_quote.some =>
        LET q == cq_quote.v IN
        /\ q.yes_bid.some = (cq_book.bids # <<>>)
        /\ q.yes_bid.some => q.yes_bid.v = cq_book.bids[1]
        /\ q.yes_ask.some = (cq_book.asks # <<>>)
        /\ q.yes_ask.some => q.yes_ask.v = cq_book.asks[1]
        /\ q.no_bid.some = q.yes_ask.some
        /\ q.no_bid.some => q.no_bid.v = FSub(One, q.yes_ask.v)
        /\ q.no_ask.some = q.yes_bid.some
        /\ q.no_ask.some => q.no_ask.v = FSub(One, q.yes_bid.v)
        /\ q.spread_yes.some = (q.yes_bid.some /\ q.yes_ask.some)
        /\ q.spread_yes.some => q.spread_yes.v = FSub(q.yes_ask.v, q.yes_bid.v)
        /\ q.mid_yes.some = (q.yes_bid.some /\ q.yes_ask.some)
        /\ q.mid_yes.some =>
               q.mid_yes.v = FDiv(FAdd(q.yes_bid.v, q.yes_ask.v), R(2, 1))
        /\ q.spread_no.some = (q.no_bid.some /\ q.no_ask.some)
        /\ q.spread_no.some => q.spread_no.v = FSub(q.no_ask.v, q.no_bid.v)
        /\ q.mid_no.some = (q.no_bid.some /\ q.no_ask.some)
        /\ q.mid_no.some =>
               q.mid_no.v = FDiv(FAdd(q.no_bid.v, q.no_ask.v), R(2, 1))

\* a book with bids at 0.40 and 0.45 and asks at 0.60 and 1 gave the NO
\* side 0.40 / 0.60 with spread 0.20 and mid 0.50
C21_Witness ==
    /\ cq_book.bids = <<R(40, 100), R(45, 100)>>
    /\ cq_book.asks = <<R(60, 100), One>>
    /\ cq_quote.some
    /\ cq_quote.v.no_bid = Some(R(40, 100))
    /\ cq_quote.v.no_ask = Some(R(60, 100))
    /\ cq_quote.v.spread_no = Some(R(20, 100))
    /\ cq_quote.v.mid_no = Some(R(50, 100))

\* C28 as stated: the limit passed to list_recs and echoed in the response
\* is within [1, max_page_size] whatever the limit parameter; it is
\* default_page_size when the parameter is absent, and offset is 0 when
\* absent.
C28_LimitWithinPage ==
    /\ api_call.some =>
           /\ 1 <= api_call.v.limit
           /\ api_call.v.limit <= api_config.max_page_size
           /\ ~api_params.limit.some =>
                  api_call.v.limit = api_config.default_page_size
           /\ ~api_params.offset.some => api_call.v.offset = 0
    /\ (api_resp.some /\ api_resp.v.ok) =>
           /\ api_resp.v.v.limit = api_call.v.limit
           /\ api_resp.v.v.offset = api_call.v.offset

\* a table with every row of a batch upserted, in batch order
RECURSIVE AllUpserted(_, _)
AllUpserted(tbl, rows) ==
    IF rows = <<>> THEN tbl
    ELSE AllUpserted([tbl EXCEPT ![Head(rows).market_id] = Head(rows).v],
                     Tail(rows))

\* C23: until a batch write returns Ok the table is as it was when the
\* function was called, so a call that fails at any row, at begin or at
\* commit leaves none of its rows behind; a call that returns Ok leaves
\* all of them.
C23_BatchAllOrNothing ==
    /\ (bt_result.some /\ bt_result.v.ok) =>
           bt_tbl = AllUpserted(bt_before, bt_rows)
    /\ ~(bt_result.some /\ bt_result.v.ok) => bt_tbl = bt_before

\* upsert_scores_batch failed on its second row, after its first statement
\* had run, and the table has neither
C23_Witness ==
    /\ bt_fn = "upsert_scores_batch"
    /\ bt_pc = "returned"
    /\ bt_result = Some(Err("execute"))
    /\ bt_i = 1
    /\ bt_rows[1].market_id = 1
    /\ bt_before[1] = NoRow
    /\ bt_tbl = bt_before

\* the storage calls of run_scoring_cycle, in the order of the code
CycleOrder ==
    <<"list_active_markets", "get_quotes_latest_batch", "get_rules_batch",
      "upsert_scores_batch", "upsert_recs_batch">>

\* the cycle's last storage call failed
CycleFailed == sc_calls # <<>> /\ ~sc_calls[Len(sc_calls)].ok

\* C22: the storage calls of a scoring cycle are made in the order of the
\* code and none is made after one that failed, so upsert_recs_batch never
\* follows a failed upsert_scores_batch; after a failed call the task is
\* back in the run loop, which only cancellation ends, and the next tick
\* of the ticker starts a new cycle at list_active_markets.
C22_FailedCallEndsCycle ==
    /\ [](/\ Len(sc_calls) <= Len(CycleOrder)
          /\ \A i \in 1..Len(sc_calls) :
               /\ sc_calls[i].fn = CycleOrder[i]
               /\ i < Len(sc_calls) => sc_calls[i].ok
          /\ CycleFailed => sc_pc \in {"select", "done"}
          /\ (CycleFailed /\ sc_pc = "select" /\ sc_ticks < MaxScoringCycles) =>
                 ENABLED ScoringTick)
    /\ [][/\ (sc_pc # "done" /\ sc_pc' = "done") =>
                 (sc_pc = "select" /\ sc_cancelled)
          /\ (CycleFailed /\ sc_calls' # sc_calls) =>
                 (sc_calls' = <<>> /\ sc_pc' = "list_active_markets")]_vars

\* upsert_scores_batch failed in the first cycle: upsert_recs_batch was
\* not called, nothing was written, and the task waits for the next tick
C22_Witness ==
    /\ sc_ticks = 1
    /\ sc_pc = "select"
    /\ Len(sc_calls) = 4
    /\ sc_calls[4] = [fn |-> "upsert_scores_batch", ok |-> FALSE]
    /\ sc_scores_tbl = [m \in MarketIds |-> NoRow]
    /\ sc_recs_tbl = [m \in MarketIds |-> NoRow]
    /\ ~sc_cancelled

\* C25: no step removes a row of markets, scores_latest or recs_latest,
\* and a row of scores_latest or recs_latest changes only when the cycle's
\* upsert for its table returns, and only for a market the cycle computed
\* a score for: the rows of every other market, one that is no longer
\* eligible included, stay as they were last written.
C25_RowsStay ==
    [][/\ sc_markets_tbl \subseteq sc_markets_tbl'
       /\ \A m \in MarketIds :
            /\ sc_scores_tbl[m] # NoRow => sc_scores_tbl'[m] # NoRow
            /\ sc_recs_tbl[m] # NoRow => sc_recs_tbl'[m] # NoRow
            /\ sc_scores_tbl'[m] # sc_scores_tbl[m] =>
                   (sc_pc = "upsert_scores_batch" /\ m \in sc_computed)
            /\ sc_recs_tbl'[m] # sc_recs_tbl[m] =>
                   (sc_pc = "upsert_recs_batch" /\ m \in sc_computed)]_vars

\* the second cycle scored market 2 only and has written its score;
\* market 1 keeps the score and the recommendation of the first cycle
C25_Witness ==
    /\ sc_ticks = 2
    /\ sc_pc = "upsert_recs_batch"
    /\ sc_markets = {2}
    /\ sc_scores_tbl[1] = 1
    /\ sc_recs_tbl[1] = 1
    /\ sc_scores_tbl[2] = 2

\* C31: the market writer's buffer is below batch_size whenever the writer
\* waits, so it never holds more than batch_size markets; a step calls
\* upsert_markets_batch exactly when it is a receive that fills the buffer
\* to batch_size or the cancellation branch taken with a non-empty buffer;
\* a batch written on a receive has batch_size markets and the batch of the
\* cancellation branch has between 1 and batch_size - 1.
C31_FlushAtBatchSizeOrCancel ==
    /\ [](/\ Len(batch) < BatchSize
          /\ \A i \in 1..Len(market_log) :
               /\ Len(market_log[i].batch) >= 1
               /\ Len(market_log[i].batch) <= BatchSize
               /\ ~market_log[i].final => Len(market_log[i].batch) = BatchSize)
    /\ [][(market_log' # market_log) <=>
              \/ (market_recv' = market_recv + 1 /\ Len(batch) + 1 = BatchSize)
              \/ (w_pc = "select" /\ w_pc' = "done" /\ batch # <<>>)]_vars

\* the writer wrote a full batch on a receive, then a remainder of one
\* market at cancellation
C31_Witness ==
    /\ w_pc = "done"
    /\ Len(market_log) = 2
    /\ Len(market_log[1].batch) = BatchSize
    /\ ~market_log[1].final
    /\ Len(market_log[2].batch) = 1
    /\ market_log[2].final

\* the rows of the upsert_markets_batch calls made so far, in call order
RECURSIVE FlushedSeq(_)
FlushedSeq(log) ==
    IF log = <<>> THEN <<>> ELSE Head(log).rows \o FlushedSeq(Tail(log))

\* the contents of the latest discovery of market m among a set of rows,
\* NoRow when the set has none of m
LatestOf(rows, m) ==
    LET vs == {r.v : r \in {x \in rows : x.market_id = m}} IN
    IF vs = {} THEN NoRow ELSE CHOOSE v \in vs : \A w \in vs : w <= v

\* the rows of the calls that succeeded
WrittenRows == UNION {Range(mr_log[i].rows) : i \in {k \in 1..Len(mr_log) : mr_log[k].ok}}

\* the rows of all the calls
FlushedRows == UNION {Range(mr_log[i].rows) : i \in 1..Len(mr_log)}

InCycle == sc_pc \notin {"select", "done"}

\* C33: run returns only from its select with the token cancelled, and
\* with Ok; a step taken inside a cycle, cancelled or not, leads to the
\* next storage call of the cycle or back to the select, and a cycle that
\* has started does get back to the select; once run has returned no tick
\* is taken and no storage call is made; a cycle that failed leaves run
\* running.
C33_CancelSeenAtSelectOnly ==
    /\ [](sc_pc = "done" <=> sc_result = Some(Ok("unit")))
    /\ [](sc_result \in {None, Some(Ok("unit"))})
    /\ [][/\ (sc_pc # "done" /\ sc_pc' = "done") =>
                 (sc_pc = "select" /\ sc_cancelled)
          /\ (InCycle /\ sc_pc' # sc_pc) =>
                 (sc_pc' # "done" /\ Len(sc_calls') = Len(sc_calls) + 1)
          /\ sc_pc = "done" =>
                 (sc_pc' = "done" /\ sc_ticks' = sc_ticks
                     /\ sc_calls' = sc_calls /\ sc_scores_tbl' = sc_scores_tbl
                     /\ sc_recs_tbl' = sc_recs_tbl)
          /\ (InCycle /\ sc_pc' = "select"
                /\ ~sc_calls'[Len(sc_calls')].ok) => sc_result' = None]_vars
    /\ (InCycle ~> sc_pc = "select")

\* the token is cancelled and the cycle is still going: its scores are
\* written, upsert_recs_batch is in flight and run has not returned
C33_Witness ==
    /\ sc_cancelled
    /\ sc_pc = "upsert_recs_batch"
    /\ sc_ticks = 1
    /\ sc_scores_tbl[1] = 1
    /\ sc_result = None

\* C38: while upsert_recs_batch is in flight the cycle's score rows are
\* already in scores_latest, and when the call fails both tables are left
\* as they are: scores_latest with the cycle's rows, recs_latest with the
\* rows it had before the cycle.
C38_ScoresStayWhenRecsFail ==
    /\ [](sc_pc = "upsert_recs_batch" =>
             \A m \in sc_computed : sc_scores_tbl[m] = sc_ticks)
    /\ [][(sc_pc = "upsert_recs_batch" /\ Len(sc_calls') = 5
              /\ ~sc_calls'[5].ok) =>
          /\ sc_recs_tbl' = sc_recs_tbl
          /\ sc_scores_tbl' = sc_scores_tbl
          /\ \A m \in sc_computed : sc_recs_tbl'[m] # sc_ticks]_vars

\* the second cycle wrote a score for market 1 and its upsert_recs_batch
\* failed: the score is the second cycle's, the recommendation the first's
C38_Witness ==
    /\ sc_ticks = 2
    /\ sc_pc = "select"
    /\ Len(sc_calls) = 5
    /\ ~sc_calls[5].ok
    /\ sc_scores_tbl[1] = 2
    /\ sc_recs_tbl[1] = 1

\* the i-th input market has a quote in the map and compute_score succeeds
\* for it on its own
Scorable(i) ==
    LET market == eb_markets[i] IN
    /\ eb_quotes[market.market_id].some
    /\ compute_score(DefaultScoringConfig, market,
                     eb_quotes[market.market_id].v,
                     eb_rules[market.market_id], eb_now).ok

\* the input position of the k-th scorable market
KthScorable(k) ==
    CHOOSE i \in 1..Len(eb_markets) :
        Scorable(i) /\ Cardinality({j \in 1..i : Scorable(j)}) = k

\* C34: compute_scores_batch returns one Score for each scorable input
\* market and none for any other, in input order, and each Score is the
\* one compute_score gives for that market alone.
C34_BatchKeepsScorable ==
    eb_scores.some =>
        /\ Len(eb_scores.v) = Cardinality({i \in 1..Len(eb_markets) : Scorable(i)})
        /\ \A k \in 1..Len(eb_scores.v) :
             LET market == eb_markets[KthScorable(k)] IN
             /\ eb_scores.v[k].market_id = market.market_id
             /\ eb_scores.v[k].score =
                    compute_score(DefaultScoringConfig, market,
                                  eb_quotes[market.market_id].v,
                                  eb_rules[market.market_id], eb_now).v

\* three markets, the middle one closing too soon to be scored: the
\* result holds the first and the third
C34_Witness ==
    /\ eb_scores.some
    /\ Len(eb_markets) = 3
    /\ Scorable(1) /\ ~Scorable(2) /\ Scorable(3)
    /\ eb_quotes[eb_markets[2].market_id].some
    /\ Len(eb_scores.v) = 2
    /\ eb_scores.v[2].market_id = eb_markets[3].market_id

\* C37: when a cycle has generated its recommendations there is exactly
\* one for each computed score and none for any other market, and the
\* as_of of every score and of every recommendation is the cycle's now.
C37_RecsMatchScores ==
    eb_recs.some =>
        /\ Len(eb_recs.v) = Len(eb_scores.v)
        /\ {eb_recs.v[i].market_id : i \in 1..Len(eb_recs.v)} =
               {eb_scores.v[i].market_id : i \in 1..Len(eb_scores.v)}
        /\ \A i \in 1..Len(eb_scores.v) : eb_scores.v[i].score.as_of = eb_now
        /\ \A i \in 1..Len(eb_recs.v) : eb_recs.v[i].rec.as_of = eb_now

\* of three markets the cycle scored the two that have priced quotes, and
\* recommended both, one of them without a rule
C37_Witness ==
    /\ eb_recs.some
    /\ Len(eb_markets) = 3
    /\ Len(eb_scores.v) = 2
    /\ Len(eb_recs.v) = 2
    /\ \E i \in 1..2 : ~eb_rules[eb_recs.v[i].market_id].some

\* C35: the t_remaining_sec of a Score is floor(close_time - now) and its
\* staleness_sec is floor(now - quote.as_of), in whole seconds, whatever
\* the sign of the difference.
C35_SecondsAreFloor ==
    (eng_score.some /\ eng_score.v.ok) =>
        /\ eng_score.v.v.t_remaining_sec =
               (eng_market.close_time.v - eng_now) \div 1000
        /\ eng_score.v.v.staleness_sec =
               (eng_now - eng_quote.as_of) \div 1000

C40_InsertsGoOnAfterFailures ==
    [][Len(quote_log') > Len(quote_log) =>
          LET call == quote_log'[Len(quote_log')] IN
          /\ Len(call.oks) = Len(call.quotes)
          /\ \A i \in 1..Len(call.quotes) :
               call.oks[i] =>
                 quotes_5m'[<<call.quotes[i].market_id,
                              BucketTo5m(call.quotes[i].as_of)>>] # NoRow]_vars

\* a batch of two quotes whose upsert_quotes_latest_batch and first
\* insert_quote_5m failed: quotes_5m holds the second quote, quotes_latest
\* holds nothing
C40_Witness ==
    /\ Len(quote_log) = 1
    /\ Len(quote_log[1].quotes) = 2
    /\ ~quote_log[1].ok
    /\ ~quote_log[1].oks[1] /\ quote_log[1].oks[2]
    /\ quotes_latest = [m \in MarketIds |-> NoRow]
    /\ quotes_5m[<<quote_log[1].quotes[2].market_id, BucketTo5m(quote_log[1].quotes[2].as_of)>>] = quote_log[1].quotes[2].as_of
    /\ quotes_5m[<<quote_log[1].quotes[1].market_id, BucketTo5m(quote_log[1].quotes[1].as_of)>>] = NoRow

\* C36: once the token is cancelled, each of the six ingest tasks
\* eventually completes and run() eventually returns, whatever the tasks
\* were doing at that moment.
C36_CancelLeadsToReturn ==
    cancelled ~> (/\ run_pc = "returned"
                  /\ \A i \in 1..Len(Handles) : TaskDone(Handles[i]))

\* run() has returned after a cancel() that found discovery blocked in a
\* send on the full market queue, in the middle of a page
C36_Witness ==
    /\ run_pc = "returned"
    /\ \A i \in 1..Len(Handles) : TaskDone(Handles[i])
    /\ "discovery" \in at_cancel.blocked
    /\ Len(market_sent) < Len(market_produced)

=============================================================================
